---- MODULE Spec2Model ----
(***************************************************************************)
(* Model of the form-validation-and-submission pipeline of the starter     *)
(* template: the rule registry and validators of src/js/utils/validator.js *)
(* and the submission controller of src/js/components/Form.js.             *)
(*                                                                         *)
(* JavaScript strings that the code parses or inspects (field values,      *)
(* data-validate attributes, field names) are sequences of one-character   *)
(* strings.  JavaScript values of mixed type are records [k, v] where k is *)
(* the typeof tag and v a sequence.                                        *)
(***************************************************************************)
EXTENDS Integers, Sequences, FiniteSets, TLC

(***************************************************************************)
(* Bounds of the model.                                                    *)
(***************************************************************************)
\* submissions a behaviour may accept
MaxSubmits == 2

(***************************************************************************)
(* JavaScript values.                                                      *)
(***************************************************************************)
JStr(s) == [k |-> "str", v |-> s]
JNum(n) == [k |-> "num", v |-> <<n>>]
\* an array object: ref is its identity (two arrays are the same object
\* exactly when they have the same ref)
JArr(ref, a) == [k |-> "arr", v |-> a, ref |-> ref]
JUndef == [k |-> "undef", v |-> <<>>]
JNull == [k |-> "null", v |-> <<>>]
JFun == [k |-> "fun", v |-> <<>>]

IsStr(x) == x.k = "str"

\* value === other (strict equality; arrays are equal when they are the
\* same object, whatever they hold)
StrictEq(x, y) == x.k = y.k /\ (IF x.k = "arr" THEN x.ref = y.ref ELSE x.v = y.v)

\* truthiness of a value, as in "a || b" and "if (a)"
Truthy(x) ==
  CASE x.k = "str" -> x.v # <<>>
    [] x.k = "num" -> x.v[1] # 0
    [] x.k \in {"undef", "null", "nan"} -> FALSE
    [] OTHER -> TRUE

(***************************************************************************)
(* String helpers: String.prototype.split, trim, Number(string).           *)
(***************************************************************************)
IsSpace(c) == c = " "
DigitVal ==
  [c \in {"0", "1", "2", "3", "4", "5", "6", "7", "8", "9"} |->
     CASE c = "0" -> 0 [] c = "1" -> 1 [] c = "2" -> 2 [] c = "3" -> 3
       [] c = "4" -> 4 [] c = "5" -> 5 [] c = "6" -> 6 [] c = "7" -> 7
       [] c = "8" -> 8 [] c = "9" -> 9]
IsDigit(c) == c \in DOMAIN DigitVal

\* index of the first occurrence of character c in s, 0 when absent
IndexOf(s, c) ==
  IF \E i \in 1..Len(s) : s[i] = c
  THEN CHOOSE i \in 1..Len(s) : s[i] = c /\ \A j \in 1..(i - 1) : s[j] # c
  ELSE 0

RECURSIVE Split(_, _)
\* s.split(sep) for a one-character separator
Split(s, sep) ==
  IF IndexOf(s, sep) = 0 THEN <<s>>
  ELSE <<SubSeq(s, 1, IndexOf(s, sep) - 1)>> \o Split(SubSeq(s, IndexOf(s, sep) + 1, Len(s)), sep)

RECURSIVE TrimLeft(_)
TrimLeft(s) == IF s # <<>> /\ IsSpace(Head(s)) THEN TrimLeft(Tail(s)) ELSE s
RECURSIVE TrimRight(_)
TrimRight(s) ==
  IF s # <<>> /\ IsSpace(s[Len(s)]) THEN TrimRight(SubSeq(s, 1, Len(s) - 1)) ELSE s
\* s.trim()
Trim(s) == TrimRight(TrimLeft(s))

RECURSIVE DigitsToNat(_)
DigitsToNat(s) ==
  IF s = <<>> THEN 0 ELSE 10 * DigitsToNat(SubSeq(s, 1, Len(s) - 1)) + DigitVal[s[Len(s)]]

NaN == [k |-> "nan", v |-> <<>>]
IsNaN(x) == x.k = "nan"
\* the value of an optionally signed run of decimal digits, NaN otherwise
SignedToNumber(negative, body) ==
  IF body # <<>> /\ \A i \in 1..Len(body) : IsDigit(body[i])
  THEN JNum(IF negative THEN 0 - DigitsToNat(body) ELSE DigitsToNat(body))
  ELSE NaN

\* Number(t) for a string t without surrounding white space
TrimmedToNumber(t) ==
  IF t = <<>> THEN JNum(0)
  ELSE IF Head(t) \in {"-", "+"} THEN SignedToNumber(Head(t) = "-", Tail(t))
       ELSE SignedToNumber(FALSE, t)

\* Number(s) for a string s: surrounding white space is dropped, the empty
\* string is 0, an optionally signed run of decimal digits is its value and
\* every other text of the model's alphabet is NaN.
StringToNumber(s) == TrimmedToNumber(Trim(s))

\* Number(x) for a value x (an array is first joined: [] -> "", ["5"] -> "5")
ToNumber(x) ==
  CASE x.k = "num" -> x
    [] x.k = "str" -> StringToNumber(x.v)
    [] x.k = "arr" -> IF x.v = <<>> THEN JNum(0)
                      ELSE IF Len(x.v) = 1 THEN StringToNumber(x.v[1]) ELSE NaN
    [] x.k = "null" -> JNum(0)
    [] OTHER -> NaN


(***************************************************************************)
(* More value helpers.                                                     *)
(***************************************************************************)
JBool(b) == [k |-> "bool", v |-> <<b>>]
\* the outcome of an evaluation that raises (a TypeError)
Throw == [k |-> "throw", v |-> <<>>]
IsThrow(x) == x.k = "throw"

\* !x
Falsy(x) == IF x.k = "bool" THEN ~x.v[1] ELSE ~Truthy(x)

Letters ==
  {"a", "b", "c", "d", "e", "f", "g", "h", "i", "j", "k", "l", "m", "n", "o", "p",
   "q", "r", "s", "t", "u", "v", "w", "x", "y", "z",
   "A", "B", "C", "D", "E", "F", "G", "H", "I", "J", "K", "L", "M", "N", "O", "P",
   "Q", "R", "S", "T", "U", "V", "W", "X", "Y", "Z"}
IsAlpha(c) == c \in Letters

RECURSIVE NatToChars(_)
DigitChar(n) == CHOOSE c \in DOMAIN DigitVal : DigitVal[c] = n
NatToChars(n) ==
  IF n < 10 THEN <<DigitChar(n)>> ELSE NatToChars(n \div 10) \o <<DigitChar(n % 10)>>
\* String(n) for an integer n
NumToChars(n) == IF n < 0 THEN <<"-">> \o NatToChars(0 - n) ELSE NatToChars(n)

RECURSIVE Join(_)
\* arr.join(",")
Join(a) ==
  IF a = <<>> THEN <<>>
  ELSE IF Len(a) = 1 THEN a[1] ELSE a[1] \o <<",">> \o Join(Tail(a))

\* String(x), the coercion RegExp.prototype.test and property keys apply
ToStr(x) ==
  CASE x.k = "str" -> x.v
    [] x.k = "num" -> NumToChars(x.v[1])
    [] x.k = "arr" -> Join(x.v)
    [] x.k = "null" -> <<"n", "u", "l", "l">>
    [] OTHER -> <<"u", "n", "d", "e", "f", "i", "n", "e", "d">>

\* formData[key]: undefined when the object has no such property
Lookup(formData, key) ==
  IF key \in DOMAIN formData THEN formData[key] ELSE JUndef

(***************************************************************************)
(* Rule names (validator.rules keys).                                      *)
(***************************************************************************)
N_required == <<"r", "e", "q", "u", "i", "r", "e", "d">>
N_email == <<"e", "m", "a", "i", "l">>
N_minLength == <<"m", "i", "n", "L", "e", "n", "g", "t", "h">>
N_maxLength == <<"m", "a", "x", "L", "e", "n", "g", "t", "h">>
N_min == <<"m", "i", "n">>
N_max == <<"m", "a", "x">>
N_pattern == <<"p", "a", "t", "t", "e", "r", "n">>
N_url == <<"u", "r", "l">>
N_phone == <<"p", "h", "o", "n", "e">>
N_number == <<"n", "u", "m", "b", "e", "r">>
N_integer == <<"i", "n", "t", "e", "g", "e", "r">>
N_alpha == <<"a", "l", "p", "h", "a">>
N_alphanumeric == <<"a", "l", "p", "h", "a", "n", "u", "m", "e", "r", "i", "c">>
N_match == <<"m", "a", "t", "c", "h">>

PlainRules ==
  {N_required, N_email, N_url, N_phone, N_number, N_integer, N_alpha, N_alphanumeric}
CurriedRules == {N_minLength, N_maxLength, N_min, N_max, N_pattern, N_match}
\* the rule names the registry holds
RuleNames == PlainRules \cup CurriedRules


(***************************************************************************)
(* validator.rules: the predicates.  Each returns the JavaScript value the *)
(* call produces (a boolean), or Throw when the call raises.               *)
(***************************************************************************)
\* /^[^\s@]+@[^\s@]+\.[^\s@]+$/.test(s)
EmailRegexTest(s) ==
  \E p \in 2..Len(s) : \E q \in (p + 2)..(Len(s) - 1) :
    /\ s[p] = "@"
    /\ s[q] = "."
    /\ \A i \in 1..Len(s) : ~IsSpace(s[i]) /\ (i # p => s[i] # "@")

\* s.replace(/[\s\-\(\)]/g, '')
StripPhoneChars(s) == SelectSeq(s, LAMBDA c : ~IsSpace(c) /\ c \notin {"-", "(", ")"})

\* /^[\+]?[1-9][\d]{0,15}$/.test(s)
PhoneDigitsTest(body) ==
  /\ Len(body) \in 1..16
  /\ IsDigit(body[1]) /\ body[1] # "0"
  /\ \A i \in 1..Len(body) : IsDigit(body[i])
PhoneRegexTest(s) ==
  PhoneDigitsTest(IF s # <<>> /\ Head(s) = "+" THEN Tail(s) ELSE s)

\* new URL(s) succeeds: without a base the text must start with a scheme (a
\* letter, then letters, digits, "+", "-" or "."), followed by ":"; the
\* special schemes, which also need a host, are outside the model's inputs
SchemeEndsAt(s, i) ==
  /\ i > 1
  /\ IsAlpha(s[1])
  /\ \A j \in 1..(i - 1) : IsAlpha(s[j]) \/ IsDigit(s[j]) \/ s[j] \in {"+", "-", "."}
UrlParses(s) == SchemeEndsAt(s, IndexOf(s, ":"))

\* Rule_required, had the value not been trimmed
Rule_required_NoTrim(value) ==
  IF IsStr(value) THEN JBool(value.v # <<>>)
  ELSE JBool(value.k # "undef" /\ value.k # "null")

Rule_required(value) ==
  IF IsStr(value) THEN JBool(Trim(value.v) # <<>>)
  ELSE JBool(value.k # "undef" /\ value.k # "null")

Rule_email(value) == JBool(EmailRegexTest(ToStr(value)))

\* a >= b and a <= b on numbers, false when either is NaN
NumGeq(a, b) == ~IsNaN(a) /\ ~IsNaN(b) /\ a.v[1] >= b.v[1]
NumLeq(a, b) == ~IsNaN(a) /\ ~IsNaN(b) /\ a.v[1] <= b.v[1]

Rule_minLength(min, value) ==
  JBool(IsStr(value) /\ NumGeq(JNum(Len(value.v)), ToNumber(min)))

Rule_maxLength(max, value) ==
  JBool(IsStr(value) /\ NumLeq(JNum(Len(value.v)), ToNumber(max)))

\* Rule_min, had the comparison been strict
Rule_min_Strict(minValue, value) ==
  JBool(NumGeq(ToNumber(value), ToNumber(minValue)) /\ ToNumber(value) # ToNumber(minValue))

Rule_min(minValue, value) == JBool(NumGeq(ToNumber(value), ToNumber(minValue)))

Rule_max(maxValue, value) == JBool(NumLeq(ToNumber(value), ToNumber(maxValue)))

\* regex.test(value): only a RegExp has a test method
Rule_pattern(regex, value) == IF regex.k = "regex" THEN JBool(regex.v[1]) ELSE Throw

Rule_url(value) == JBool(UrlParses(ToStr(value)))

\* value.replace exists on strings only
Rule_phone(value) ==
  IF IsStr(value) THEN JBool(PhoneRegexTest(StripPhoneChars(value.v))) ELSE Throw

\* !isNaN(Number(value)) && value.trim() !== '' : trim is reached, and exists
\* on strings only, when the first operand is true
Rule_number(value) ==
  IF IsNaN(ToNumber(value)) THEN JBool(FALSE)
  ELSE IF IsStr(value) THEN JBool(Trim(value.v) # <<>>) ELSE Throw

Rule_integer(value) == JBool(~IsNaN(ToNumber(value)))

\* /^[a-zA-Z]+$/.test(s) and /^[a-zA-Z0-9]+$/.test(s)
AlphaRegexTest(s) == s # <<>> /\ \A i \in 1..Len(s) : IsAlpha(s[i])
AlphanumericRegexTest(s) == s # <<>> /\ \A i \in 1..Len(s) : IsAlpha(s[i]) \/ IsDigit(s[i])

Rule_alpha(value) == JBool(AlphaRegexTest(ToStr(value)))

Rule_alphanumeric(value) == JBool(AlphanumericRegexTest(ToStr(value)))

\* value === formData[fieldName]
Rule_match(fieldName, value, formData) ==
  JBool(StrictEq(value, Lookup(formData, ToStr(fieldName))))


(***************************************************************************)
(* The registry: validator.rules and validator.messages as lookup tables   *)
(* from a rule name to the predicate and the message registered under it.  *)
(***************************************************************************)
BuiltinRegistry ==
  [rules |-> [n \in RuleNames |-> n], messages |-> [n \in RuleNames |-> n]]

\* this.rules[name] is defined
HasRule(reg, name) == name \in DOMAIN reg.rules

\* calling the plain predicate registered as id with (value, formData)
ApplyPlain(id, value) ==
  CASE id = N_required -> Rule_required(value)
    [] id = N_email -> Rule_email(value)
    [] id = N_url -> Rule_url(value)
    [] id = N_phone -> Rule_phone(value)
    [] id = N_number -> Rule_number(value)
    [] id = N_integer -> Rule_integer(value)
    [] id = N_alpha -> Rule_alpha(value)
    [] OTHER -> Rule_alphanumeric(value)

\* calling the predicate a curried rule returned for parameter p
ApplyCurried(id, p, value, formData) ==
  CASE id = N_minLength -> Rule_minLength(p, value)
    [] id = N_maxLength -> Rule_maxLength(p, value)
    [] id = N_min -> Rule_min(p, value)
    [] id = N_max -> Rule_max(p, value)
    [] id = N_pattern -> Rule_pattern(p, value)
    [] OTHER -> Rule_match(p, value, formData)

\* the first declared parameter (undefined when the list is empty)
FirstParam(params) == IF params = <<>> THEN JUndef ELSE params[1]

(***************************************************************************)
(* validator.messages.  A message text is a string whose fixed parts are   *)
(* kept as single tokens.                                                  *)
(***************************************************************************)
MessageIsFunction(id) == id \in CurriedRules \ {N_pattern}

StaticMessage(id) ==
  CASE id = N_required -> JStr(<<"This field is required">>)
    [] id = N_email -> JStr(<<"Please enter a valid email address">>)
    [] id = N_pattern -> JStr(<<"Please enter a valid format">>)
    [] id = N_url -> JStr(<<"Please enter a valid URL">>)
    [] id = N_phone -> JStr(<<"Please enter a valid phone number">>)
    [] id = N_number -> JStr(<<"Please enter a valid number">>)
    [] id = N_integer -> JStr(<<"Please enter a whole number">>)
    [] id = N_alpha -> JStr(<<"Only letters are allowed">>)
    [] OTHER -> JStr(<<"Only letters and numbers are allowed">>)

\* the message function registered as id, applied to the text of its parameter
MessageTemplate(id, p) ==
  CASE id = N_minLength -> JStr(<<"Must be at least ">> \o p \o <<" characters">>)
    [] id = N_maxLength -> JStr(<<"Must not exceed ">> \o p \o <<" characters">>)
    [] id = N_min -> JStr(<<"Must be at least ">> \o p)
    [] id = N_max -> JStr(<<"Must not exceed ">> \o p)
    [] OTHER -> JStr(<<"Must match ">> \o p)

\* this.messages[id](...params)
MessageFunction(id, params) == MessageTemplate(id, ToStr(FirstParam(params)))

(***************************************************************************)
(* validator.validateField(value, rules, formData)                         *)
(*                                                                         *)
(* A rule entry is [obj, rule, params, message]: obj is FALSE for a bare   *)
(* rule name (typeof rule === 'string') and TRUE for {rule, params,        *)
(* message}; message is JUndef when the entry carries none.                *)
(***************************************************************************)
BareRule(name) == [obj |-> FALSE, rule |-> name, params |-> <<>>, message |-> JUndef]
ParamRule(name, params) == [obj |-> TRUE, rule |-> name, params |-> params, message |-> JUndef]

\* calling the rule function registered as id for a bare rule name:
\* this.rules[rule](value, formData)
CallBare(id, value) == IF id \in PlainRules THEN ApplyPlain(id, value) ELSE JFun

\* calling the rule function registered as id for an entry {rule, params}
CallWithParams(id, params, value, formData) ==
  IF Len(params) > 0
  THEN IF id \in PlainRules
       THEN Throw   \* the predicate's boolean result is then called
       ELSE ApplyCurried(id, params[1], value, formData)
  ELSE CallBare(id, value)

\* isValid of one loop iteration: the value the predicate call produced
RuleOutcome(reg, rule, value, formData) ==
  IF ~rule.obj
  THEN IF ~HasRule(reg, rule.rule) THEN Throw
       ELSE CallBare(reg.rules[rule.rule], value)
  ELSE IF ~HasRule(reg, rule.rule) THEN JBool(TRUE)
       ELSE CallWithParams(reg.rules[rule.rule], rule.params, value, formData)

\* the registry's message for id, the message function applied to params
RegistryMessage(id, params) ==
  IF MessageIsFunction(id) THEN MessageFunction(id, params) ELSE StaticMessage(id)

\* RuleMessage, had the entry's own message been left aside
RuleMessage_IgnoresOverride(reg, rule) ==
  IF ~rule.obj
  THEN IF rule.rule \in DOMAIN reg.messages
       THEN IF MessageIsFunction(reg.messages[rule.rule]) THEN JFun
            ELSE StaticMessage(reg.messages[rule.rule])
       ELSE JUndef
  ELSE IF ~HasRule(reg, rule.rule) THEN JStr(<<>>)
       ELSE IF rule.rule \notin DOMAIN reg.messages THEN JUndef
            ELSE RegistryMessage(reg.messages[rule.rule], rule.params)

\* errorMessage of one loop iteration
RuleMessage(reg, rule) ==
  IF ~rule.obj
  THEN IF rule.rule \in DOMAIN reg.messages
       THEN IF MessageIsFunction(reg.messages[rule.rule]) THEN JFun
            ELSE StaticMessage(reg.messages[rule.rule])
       ELSE JUndef
  ELSE IF ~HasRule(reg, rule.rule) THEN JStr(<<>>)
       ELSE IF Truthy(rule.message) THEN rule.message
            ELSE IF rule.rule \notin DOMAIN reg.messages THEN JUndef
                 ELSE RegistryMessage(reg.messages[rule.rule], rule.params)

\* PushError, had the loop stopped collecting at the first failure
PushError_FirstOnly(out, message, rest) ==
  IF IsThrow(out) \/ rest.threw THEN [threw |-> TRUE, errors |-> <<>>]
  ELSE IF Falsy(out) THEN [threw |-> FALSE, errors |-> <<message>>]
       ELSE rest

\* the errors after one more iteration: out is the rule's isValid, message
\* its errorMessage, rest what the remaining rules give
PushError(out, message, rest) ==
  IF IsThrow(out) \/ rest.threw THEN [threw |-> TRUE, errors |-> <<>>]
  ELSE IF Falsy(out) THEN [threw |-> FALSE, errors |-> <<message>> \o rest.errors]
       ELSE rest

RECURSIVE CollectErrors(_, _, _, _)
\* the for loop: the errors pushed, or threw when a rule call raised
CollectErrors(reg, value, rules, formData) ==
  IF rules = <<>> THEN [threw |-> FALSE, errors |-> <<>>]
  ELSE PushError(RuleOutcome(reg, Head(rules), value, formData),
                 RuleMessage(reg, Head(rules)),
                 CollectErrors(reg, value, Tail(rules), formData))

\* return { isValid: errors.length === 0, errors }
FieldResultOf(c) ==
  [threw |-> c.threw, isValid |-> ~c.threw /\ c.errors = <<>>, errors |-> c.errors]

ValidateField(reg, value, rules, formData) ==
  FieldResultOf(CollectErrors(reg, value, rules, formData))

(***************************************************************************)
(* validator.validateForm(formData, validationRules)                       *)
(* formData and validationRules are functions from field names.            *)
(***************************************************************************)
\* formData[fieldName] || ''
FieldValueOrEmpty(formData, fieldName) ==
  IF Truthy(Lookup(formData, fieldName)) THEN formData[fieldName] ELSE JStr(<<>>)

\* results[fieldName] for every field name of the rules
FieldResults(reg, formData, validationRules) ==
  [f \in DOMAIN validationRules |->
     ValidateField(reg, FieldValueOrEmpty(formData, f), validationRules[f], formData)]

\* Aggregate, had a failing field not cleared isValid
Aggregate_AlwaysValid(results) ==
  IF \E f \in DOMAIN results : results[f].threw
  THEN [threw |-> TRUE, isValid |-> FALSE, errors |-> <<>>, results |-> <<>>]
  ELSE [threw |-> FALSE,
        isValid |-> TRUE,
        errors |-> [f \in {g \in DOMAIN results : ~results[g].isValid} |-> results[f].errors],
        results |-> results]

\* Aggregate, had every validated field been entered in errors
Aggregate_ListsEveryField(results) ==
  IF \E f \in DOMAIN results : results[f].threw
  THEN [threw |-> TRUE, isValid |-> FALSE, errors |-> <<>>, results |-> <<>>]
  ELSE [threw |-> FALSE,
        isValid |-> \A f \in DOMAIN results : results[f].isValid,
        errors |-> [f \in DOMAIN results |-> results[f].errors],
        results |-> results]

\* return { isValid, errors, results }: isValid unless some field failed,
\* errors holding the fields that failed
Aggregate(results) ==
  IF \E f \in DOMAIN results : results[f].threw
  THEN [threw |-> TRUE, isValid |-> FALSE, errors |-> <<>>, results |-> <<>>]
  ELSE [threw |-> FALSE,
        isValid |-> \A f \in DOMAIN results : results[f].isValid,
        errors |-> [f \in {g \in DOMAIN results : ~results[g].isValid} |-> results[f].errors],
        results |-> results]

ValidateForm(reg, formData, validationRules) ==
  Aggregate(FieldResults(reg, formData, validationRules))

(***************************************************************************)
(* validator.extractFormData(form)                                         *)
(* entries is the entry list of new FormData(form): <<name, value>> pairs  *)
(* in tree order.                                                          *)
(***************************************************************************)
\* data after data[key] = value
SetKey(data, key, value) ==
  [f \in DOMAIN data \cup {key} |-> IF f = key THEN value ELSE data[f]]

\* the value stored under key, whose old value is old, when value arrives;
\* the array made for a key is one object, named after the key
Merged(key, old, value) ==
  IF Truthy(old)
  THEN IF old.k = "arr" THEN JArr(old.ref, Append(old.v, value))
       ELSE JArr(key, <<old.v, value>>)
  ELSE JStr(value)

RECURSIVE FoldEntries(_, _)
FoldEntries(data, entries) ==
  IF entries = <<>> THEN data
  ELSE FoldEntries(SetKey(data, Head(entries)[1],
                          Merged(Head(entries)[1], Lookup(data, Head(entries)[1]),
                                 Head(entries)[2])),
                   Tail(entries))

ExtractFormData(entries) == FoldEntries(<<>>, entries)

(***************************************************************************)
(* Form.parseRuleString(ruleString)                                        *)
(***************************************************************************)
\* params.split(',').map(p => { const num = Number(p); return isNaN(num) ? p : num })
KeepIfNaN(p, num) == IF IsNaN(num) THEN JStr(p) ELSE num
ParseParam(p) == KeepIfNaN(p, StringToNumber(p))

\* params.split(',').map(...)
ParseParams(pieces) == [i \in 1..Len(pieces) |-> ParseParam(pieces[i])]

\* const [ruleName, params] = rule.split(':')
ParseParts(parts) == ParamRule(parts[1], ParseParams(Split(parts[2], ",")))

ParseRuleToken(rule) ==
  IF IndexOf(rule, ":") # 0 THEN ParseParts(Split(rule, ":")) ELSE BareRule(rule)

\* ruleParts.forEach(...)
ParseTokens(ruleParts) == [i \in 1..Len(ruleParts) |-> ParseRuleToken(ruleParts[i])]

ParseRuleString(ruleString) == ParseTokens(Split(ruleString, "|"))


(***************************************************************************)
(* The form element a controller is bound to.                              *)
(*                                                                         *)
(* The markup is fixed at construction (layout):                           *)
(*   fields      the input/textarea/select descendants in tree order, each *)
(*               [name, validate, formInput, checkbox, values]: the name   *)
(*               attribute, the data-validate attribute (empty when        *)
(*               absent), whether it carries class form-input, whether it  *)
(*               is a checkbox, and the texts a user may enter;            *)
(*   containers  the error locations, each [dataError, idFor, formError]:  *)
(*               the data-error attribute, the name N when the id is       *)
(*               "N-error" (empty when absent), whether it carries class   *)
(*               form-error;                                               *)
(*   button      whether a [type="submit"] element exists, and its label.  *)
(***************************************************************************)
NoAttr == <<>>
F_email == <<"e">>
F_password == <<"p">>
F_confirm == <<"c">>
F_name == <<"n">>
F_age == <<"q">>
F_other == <<"o">>
F_tags == <<"t">>
F_code == <<"z">>

V_empty == <<>>
V_blank == <<" ">>
V_a == <<"a">>
V_b == <<"b">>
V_ab == <<"a", "b">>
V_mail == <<"a", "@", "b", ".", "c">>
V_3 == <<"3">>
V_7 == <<"7">>

\* data-validate attribute values
RULES_EMAIL == <<"r", "e", "q", "u", "i", "r", "e", "d", "|", "e", "m", "a", "i", "l">>
RULES_CONFIRM == <<"r", "e", "q", "u", "i", "r", "e", "d", "|", "m", "a", "t", "c", "h", ":", "p">>
RULES_NAME == <<"r", "e", "q", "u", "i", "r", "e", "d", "|", "m", "i", "n", "L", "e", "n", "g", "t", "h", ":", "2">>
RULES_AGE == <<"m", "i", "n", ":", "5">>
RULES_REQUIRED == <<"r", "e", "q", "u", "i", "r", "e", "d">>
RULES_CODE == <<"p", "a", "t", "t", "e", "r", "n", ":", "a">>

Field(name, validate, formInput, values) ==
  [name |-> name, validate |-> validate, formInput |-> formInput,
   checkbox |-> FALSE, values |-> values]
Checkbox(name, validate, formInput, value) ==
  [name |-> name, validate |-> validate, formInput |-> formInput,
   checkbox |-> TRUE, values |-> {value}]
Container(dataError, idFor, formError) ==
  [dataError |-> dataError, idFor |-> idFor, formError |-> formError]

\* the form of the project's README: one required e-mail field
ReadmeForm ==
  [fields |-> <<Field(F_email, RULES_EMAIL, TRUE, {V_empty, V_blank, V_a, V_mail})>>,
   containers |-> <<Container(F_email, NoAttr, TRUE)>>,
   button |-> [present |-> TRUE, label |-> <<"Send">>]]

\* a password with a confirmation that must match it; the confirmation's
\* error location is found by id, the submit button shows an icon only
SignupForm ==
  [fields |-> <<Field(F_password, NoAttr, TRUE, {V_empty, V_a, V_b}),
                Field(F_confirm, RULES_CONFIRM, FALSE, {V_empty, V_a, V_b})>>,
   containers |-> <<Container(NoAttr, F_confirm, FALSE)>>,
   button |-> [present |-> TRUE, label |-> <<>>]]

\* two validated fields and a free one; the first validated field has both
\* kinds of error location, the second has none
ProfileForm ==
  [fields |-> <<Field(F_name, RULES_NAME, TRUE, {V_empty, V_a, V_ab}),
                Field(F_age, RULES_AGE, FALSE, {V_empty, V_3, V_7}),
                Field(F_other, NoAttr, TRUE, {V_empty, V_a})>>,
   containers |-> <<Container(NoAttr, F_name, TRUE), Container(F_name, NoAttr, FALSE)>>,
   button |-> [present |-> FALSE, label |-> <<>>]]

\* a group of two check boxes sharing one name
TagsForm ==
  [fields |-> <<Checkbox(F_tags, RULES_REQUIRED, TRUE, V_a),
                Checkbox(F_tags, NoAttr, FALSE, V_b)>>,
   containers |-> <<Container(F_tags, NoAttr, TRUE)>>,
   button |-> [present |-> TRUE, label |-> <<"Save">>]]

\* a field whose rule is declared with a pattern
CodeForm ==
  [fields |-> <<Field(F_code, RULES_CODE, TRUE, {V_empty, V_a})>>,
   containers |-> <<Container(F_code, NoAttr, TRUE)>>,
   button |-> [present |-> TRUE, label |-> <<"Save">>]]

Layouts == {ReadmeForm, SignupForm, ProfileForm, TagsForm, CodeForm}


(***************************************************************************)
(* State of one Form controller and of the form element it is bound to.    *)
(***************************************************************************)
VARIABLES
  layout,          \* the markup of the form (fixed)
  value,           \* value[i]: the current value of field i
  checked,         \* checked[i]: check box i is ticked (TRUE for other fields)
  invalid,         \* invalid[i]: field i carries the border-red-500 classes
  errText,         \* errText[c]: textContent of error location c
  errDisplay,      \* errDisplay[c]: style.display of error location c
  validationRules, \* this.validationRules
  isSubmitting,    \* this.isSubmitting
  button,          \* the submit button: disabled, text, dataset.originalText, dimmed
  pc,              \* where handleSubmit stands: "idle", "submitDispatch", "errorDispatch"
  event,           \* the CustomEvent being dispatched (NoEvent outside handleSubmit)
  emitted,         \* types of the events dispatched by the current handleSubmit call
  logged,          \* the default 'Form submitted' logging ran in the current call
  labelBefore,     \* the button's label when the current submission set it aside
  prevented,       \* a listener called preventDefault on the event of the current call
  accepted,        \* number of submissions accepted so far
  lastOp,          \* the operation that ran last
  call,            \* the last direct call of a validator or parser function
  clock,           \* Date.now(), in milliseconds
  localStorage,    \* window.localStorage: the text stored under each key
  storageCall,     \* the last call of a storage helper, with what it returned
  themeManager,    \* themeManager.currentTheme and the listeners init has installed
  prefersDark,     \* matchMedia('(prefers-color-scheme: dark)').matches
  themeDom,        \* what applyTheme writes to the document
  themeCall,       \* the last operation of the theme manager, with the event it dispatched
  timers,          \* the pending setTimeout callbacks, in the order they were set
  toasts,          \* Toast.toasts: the Map from toast id to toast element
  container,       \* the toast elements in the toast container, in document order
  toastEls,        \* the toast elements created so far: their classes and duration
  modal,           \* the Modal object and the classes of its element
  activeElement,   \* document.activeElement
  stylesheet,      \* what the page's style sheet makes of the class 'hidden'
  modalCall        \* the last operation on the modal or on the focus

vars ==
  <<layout, value, checked, invalid, errText, errDisplay, validationRules, isSubmitting,
    button, pc, event, emitted, logged, labelBefore, prevented, accepted, lastOp, call,
    clock, localStorage, storageCall, themeManager, prefersDark, themeDom, themeCall,
    timers, toasts, container, toastEls, modal, activeElement, stylesheet, modalCall>>

ThemeVars == <<themeManager, prefersDark, themeDom, themeCall>>

\* the page around the form: the clock, the browser's storage and the other
\* components of the template
ToastVars == <<toasts, container, toastEls>>
ModalVars == <<modal, activeElement, stylesheet, modalCall>>

PageVars == <<clock, localStorage, storageCall, ThemeVars, timers, ToastVars, ModalVars>>

FieldIds == 1..Len(layout.fields)
ContainerIds == 1..Len(layout.containers)

(***************************************************************************)
(* DOM queries.                                                            *)
(***************************************************************************)
RECURSIVE EntriesFrom(_, _, _, _)
\* the entry list of new FormData(form): every named field in tree order, a
\* check box only when ticked
EntriesFrom(fields, vals, chk, i) ==
  IF i > Len(fields) THEN <<>>
  ELSE (IF fields[i].name # <<>> /\ (~fields[i].checkbox \/ chk[i])
        THEN <<<<fields[i].name, vals[i]>>>> ELSE <<>>)
       \o EntriesFrom(fields, vals, chk, i + 1)

FormEntries(lay, vals, chk) == EntriesFrom(lay.fields, vals, chk, 1)

\* the first of a set of element indices in tree order, 0 when there is
\* none (querySelector returns the first match or null)
FirstIndex(S) == IF S = {} THEN 0 ELSE CHOOSE i \in S : \A j \in S : i <= j

\* form.querySelector(`[name="${fieldName}"]`)
QueryByName(lay, fieldName) ==
  FirstIndex({i \in 1..Len(lay.fields) : lay.fields[i].name = fieldName})

OrElse(a, b) == IF a # 0 THEN a ELSE b

\* ErrorContainer, had the id-derived location been preferred
ErrorContainer_PrefersId(lay, name) ==
  OrElse(FirstIndex({c \in 1..Len(lay.containers) :
                       lay.containers[c].idFor # NoAttr /\ lay.containers[c].idFor = name}),
         FirstIndex({c \in 1..Len(lay.containers) :
                       lay.containers[c].dataError # NoAttr
                       /\ lay.containers[c].dataError = name}))

\* form.querySelector(`[data-error="${name}"]`) || form.querySelector(`#${name}-error`)
ErrorContainer(lay, name) ==
  OrElse(FirstIndex({c \in 1..Len(lay.containers) :
                       lay.containers[c].dataError # NoAttr
                       /\ lay.containers[c].dataError = name}),
         FirstIndex({c \in 1..Len(lay.containers) :
                       lay.containers[c].idFor # NoAttr /\ lay.containers[c].idFor = name}))

(***************************************************************************)
(* Form.parseValidationRules()                                             *)
(***************************************************************************)
ParseValidationRules(lay) ==
  LET declared == {i \in 1..Len(lay.fields) :
                     lay.fields[i].name # <<>> /\ lay.fields[i].validate # <<>>}
      names == {lay.fields[i].name : i \in declared}
      \* a later field of the same name overwrites rules[fieldName]
      last(n) == CHOOSE i \in declared :
                   /\ lay.fields[i].name = n
                   /\ \A j \in declared : lay.fields[j].name = n => j <= i
  IN [n \in names |-> ParseRuleString(lay.fields[last(n)].validate)]


(***************************************************************************)
(* Error display.  A display state d is [invalid, errText, errDisplay].    *)
(***************************************************************************)
Display == [invalid |-> invalid, errText |-> errText, errDisplay |-> errDisplay]

\* the text of a message as textContent stores it
TextOf(message) == IF message.k = "str" THEN message.v ELSE <<>>

\* Shown, had the text been added to what the location already shows
Shown_Appends(d, i, c, marked, text, display) ==
  [invalid |-> [d.invalid EXCEPT ![i] = marked],
   errText |-> IF c # 0 THEN [d.errText EXCEPT ![c] = d.errText[c] \o text] ELSE d.errText,
   errDisplay |-> IF c # 0 THEN [d.errDisplay EXCEPT ![c] = display] ELSE d.errDisplay]

\* the display with field i marked or not, and error location c (0: none)
\* showing text
Shown(d, i, c, marked, text, display) ==
  [invalid |-> [d.invalid EXCEPT ![i] = marked],
   errText |-> IF c # 0 THEN [d.errText EXCEPT ![c] = text] ELSE d.errText,
   errDisplay |-> IF c # 0 THEN [d.errDisplay EXCEPT ![c] = display] ELSE d.errDisplay]

\* Form.displayFieldErrors(field, errors) for field i
DisplayFieldErrors(lay, d, i, errors) ==
  IF Len(errors) > 0
  THEN Shown(d, i, ErrorContainer(lay, lay.fields[i].name), TRUE, TextOf(errors[1]), "block")
  ELSE Shown(d, i, ErrorContainer(lay, lay.fields[i].name), FALSE, <<>>, "none")

\* the first half of validator.displayErrors: clear what the class selectors find
ClearByClass(lay, d) ==
  [invalid |-> [i \in DOMAIN d.invalid |-> IF lay.fields[i].formInput THEN FALSE ELSE d.invalid[i]],
   errText |-> [c \in DOMAIN d.errText |->
                  IF lay.containers[c].formError THEN <<>> ELSE d.errText[c]],
   errDisplay |-> [c \in DOMAIN d.errDisplay |->
                     IF lay.containers[c].formError THEN "none" ELSE d.errDisplay[c]]]

\* the display with field (0: none) marked and, when there is a first error,
\* error location c (0: none) showing it
Marked(d, field, c, fieldErrors) ==
  [invalid |-> IF field # 0 THEN [d.invalid EXCEPT ![field] = TRUE] ELSE d.invalid,
   errText |-> IF c # 0 /\ Len(fieldErrors) > 0
               THEN [d.errText EXCEPT ![c] = TextOf(fieldErrors[1])] ELSE d.errText,
   errDisplay |-> IF c # 0 /\ Len(fieldErrors) > 0
                  THEN [d.errDisplay EXCEPT ![c] = "block"] ELSE d.errDisplay]

\* one iteration of the second half of validator.displayErrors
ShowFieldError(lay, d, fieldName, fieldErrors) ==
  Marked(d, QueryByName(lay, fieldName), ErrorContainer(lay, fieldName), fieldErrors)

RECURSIVE ShowErrors(_, _, _, _)
ShowErrors(lay, d, keys, errors) ==
  IF keys = <<>> THEN d
  ELSE ShowErrors(lay, ShowFieldError(lay, d, Head(keys), errors[Head(keys)]), Tail(keys), errors)

RECURSIVE KeysFrom(_, _, _)
\* Object.keys order: the names in order of their first declaration
KeysFrom(fields, i, names) ==
  IF i > Len(fields) THEN <<>>
  ELSE IF fields[i].name \in names /\ \A j \in 1..(i - 1) : fields[j].name # fields[i].name
       THEN <<fields[i].name>> \o KeysFrom(fields, i + 1, names)
       ELSE KeysFrom(fields, i + 1, names)

\* validator.displayErrors(form, errors)
DisplayErrors(lay, d, errors) ==
  ShowErrors(lay, ClearByClass(lay, d), KeysFrom(lay.fields, 1, DOMAIN errors), errors)

NoErrors == <<>>
\* validator.clearErrors(form)
ClearErrors(lay, d) == DisplayErrors(lay, d, NoErrors)

(***************************************************************************)
(* Form.validateField(field) and Form.validateForm()                       *)
(***************************************************************************)
\* the result validator.validateField returns for field i, given the values
FieldResult(lay, rules, vals, chk, i) ==
  ValidateField(BuiltinRegistry, JStr(vals[i]), rules[lay.fields[i].name],
                ExtractFormData(FormEntries(lay, vals, chk)))

HasRules(lay, rules, i) == lay.fields[i].name \in DOMAIN rules

\* this.displayFieldErrors(field, result.errors), skipped when validation raised
ShowFieldResult(lay, d, i, result) ==
  IF result.threw THEN d ELSE DisplayFieldErrors(lay, d, i, result.errors)

\* validator.displayErrors(this.element, result.errors), skipped when
\* validation raised
ShowFormResult(lay, d, result) ==
  IF result.threw THEN d ELSE DisplayErrors(lay, d, result.errors)

\* the result validator.validateForm returns inside Form.validateForm
FormResult(lay, rules, vals, chk) ==
  ValidateForm(BuiltinRegistry, ExtractFormData(FormEntries(lay, vals, chk)), rules)

\* the display after Form.validateForm()
FormValidateForm(lay, rules, d, vals, chk) ==
  ShowFormResult(lay, d, FormResult(lay, rules, vals, chk))

\* FormValidateField, had a field without rules been treated as required
FormValidateField_DefaultsToRequired(lay, rules, d, vals, chk, i) ==
  ShowFieldResult(lay, d, i,
    ValidateField(BuiltinRegistry, JStr(vals[i]),
                  IF HasRules(lay, rules, i) THEN rules[lay.fields[i].name]
                  ELSE <<BareRule(N_required)>>,
                  ExtractFormData(FormEntries(lay, vals, chk))))

\* FormValidateField, had the listener re-validated the whole form
FormValidateField_WholeForm(lay, rules, d, vals, chk, i) ==
  FormValidateForm(lay, rules, d, vals, chk)

\* the display after Form.validateField(field i)
FormValidateField(lay, rules, d, vals, chk, i) ==
  IF ~HasRules(lay, rules, i) THEN d
  ELSE ShowFieldResult(lay, d, i, FieldResult(lay, rules, vals, chk, i))

(***************************************************************************)
(* Form.setSubmitState(isSubmitting) on the button state b                 *)
(***************************************************************************)
SubmittingLabel == <<"Submitting...">>

\* SetSubmitState, had the button been left enabled while submitting
SetSubmitState_LeavesEnabled(b, submitting) ==
  IF ~b.present THEN b
  ELSE IF submitting
       THEN [b EXCEPT !.disabled = FALSE, !.dimmed = TRUE,
                      !.originalText = JStr(b.text), !.text = SubmittingLabel]
       ELSE [b EXCEPT !.disabled = FALSE, !.dimmed = FALSE,
                      !.text = IF Truthy(b.originalText) THEN b.originalText.v ELSE b.text]

SetSubmitState(b, submitting) ==
  IF ~b.present THEN b
  ELSE IF submitting
       THEN [b EXCEPT !.disabled = TRUE, !.dimmed = TRUE,
                      !.originalText = JStr(b.text), !.text = SubmittingLabel]
       ELSE [b EXCEPT !.disabled = FALSE, !.dimmed = FALSE,
                      !.text = IF Truthy(b.originalText) THEN b.originalText.v ELSE b.text]


(***************************************************************************)
(* Events.                                                                 *)
(***************************************************************************)
NoEvent == [type |-> "none", detail |-> <<>>, cancelable |-> FALSE, canceled |-> FALSE]

\* new CustomEvent(type, { detail }): the init dictionary names no cancelable
\* member, so the event is created not cancelable
NewCustomEvent(type, detail) ==
  [type |-> type, detail |-> detail, cancelable |-> FALSE, canceled |-> FALSE]

\* event.preventDefault(): sets the canceled flag of a cancelable event only
EventPreventDefault(e) == [e EXCEPT !.canceled = e.cancelable]

\* event.defaultPrevented
DefaultPrevented(e) == e.canceled

TheForm == "this.element"

(***************************************************************************)
(* Construction: new Form(element)                                         *)
(***************************************************************************)
\* no function has been called directly
NoCall == [op |-> "none"]

DefaultValue(f) == IF f.checkbox THEN CHOOSE v \in f.values : TRUE ELSE V_empty

FormInit ==
  /\ layout \in Layouts
  /\ value = [i \in 1..Len(layout.fields) |-> DefaultValue(layout.fields[i])]
  /\ checked = [i \in 1..Len(layout.fields) |-> ~layout.fields[i].checkbox]
  /\ invalid = [i \in 1..Len(layout.fields) |-> FALSE]
  /\ errText = [c \in 1..Len(layout.containers) |-> <<>>]
  /\ errDisplay = [c \in 1..Len(layout.containers) |-> ""]
  /\ validationRules = ParseValidationRules(layout)
  /\ isSubmitting = FALSE
  /\ button = [present |-> layout.button.present, disabled |-> FALSE, dimmed |-> FALSE,
               text |-> layout.button.label, originalText |-> JUndef]
  /\ pc = "idle"
  /\ event = NoEvent
  /\ emitted = <<>>
  /\ logged = FALSE
  /\ labelBefore = layout.button.label
  /\ prevented = FALSE
  /\ accepted = 0
  /\ lastOp = [op |-> "new", field |-> 0, outcome |-> ""]

\* localStorage.getItem gives null for a key that was never set
Missing == [k |-> "missing"]

StorageKeys == {"k", "theme"}

NoStorageCall == [op |-> "none"]

\* currentTheme: null
NoTheme == ""
NoThemeEvent == [type |-> "none"]
NoThemeCall == [op |-> "none"]

\* the theme manager as the module defines it, and a document no theme was
\* applied to
ThemeIdle ==
  /\ themeManager = [currentTheme |-> NoTheme, listeners |-> 0]
  /\ themeDom = [dataTheme |-> "", classes |-> {}, metaColor |-> "", toggleLabel |-> ""]
  /\ themeCall = NoThemeCall

\* new Toast(container): no toast shown
ToastIdle ==
  /\ toasts = <<>>
  /\ container = <<>>
  /\ toastEls = <<>>

NoElement == "null"
NoModalCall == [op |-> "none"]

\* new Modal(element) on an element that carries the class 'hidden'
ClosedModal ==
  [isOpen |-> FALSE, previousActiveElement |-> NoElement, hidden |-> TRUE,
   fadeIn |-> FALSE, scaleIn |-> FALSE, bodyLocked |-> FALSE, opens |-> 0]

ModalIdle ==
  /\ modal = ClosedModal
  /\ activeElement = "body"
  /\ stylesheet = [hidden |-> "none"]
  /\ modalCall = NoModalCall

\* the page as it is loaded: nothing stored, no helper called
PageIdle ==
  /\ clock = 0
  /\ localStorage = [key \in StorageKeys |-> Missing]
  /\ storageCall = NoStorageCall
  /\ prefersDark = FALSE
  /\ ThemeIdle
  /\ timers = <<>>
  /\ ToastIdle
  /\ ModalIdle

Init == FormInit /\ call = NoCall /\ PageIdle

Op(op, field, outcome) == [op |-> op, field |-> field, outcome |-> outcome]

(***************************************************************************)
(* The 'input' and 'blur' listeners (bindEvents): Form.validateField on    *)
(* the target.                                                             *)
(***************************************************************************)
SetDisplay(d) ==
  /\ invalid' = d.invalid
  /\ errText' = d.errText
  /\ errDisplay' = d.errDisplay

\* the user edits field i (types a text, or ticks or unticks a check box),
\* which fires 'input' on it
Input(i, v) ==
  /\ UNCHANGED <<call, PageVars>>
  /\ pc = "idle"
  /\ IF layout.fields[i].checkbox
     THEN value' = value /\ checked' = [checked EXCEPT ![i] = ~checked[i]]
     ELSE value' = [value EXCEPT ![i] = v] /\ checked' = checked
  /\ SetDisplay(FormValidateField(layout, validationRules, Display, value', checked', i))
  /\ lastOp' = Op("input", i, "")
  /\ UNCHANGED <<layout, validationRules, isSubmitting, button, pc, event, emitted, logged,
                 labelBefore, prevented, accepted>>

\* field i loses focus
Blur(i) ==
  /\ UNCHANGED <<call, PageVars>>
  /\ pc = "idle"
  /\ SetDisplay(FormValidateField(layout, validationRules, Display, value, checked, i))
  /\ lastOp' = Op("blur", i, "")
  /\ UNCHANGED <<layout, value, checked, validationRules, isSubmitting, button, pc, event,
                 emitted, logged, labelBefore, prevented, accepted>>

(***************************************************************************)
(* Form.reset() and Form.setValues(data)                                   *)
(***************************************************************************)
Reset ==
  /\ UNCHANGED <<call, PageVars>>
  /\ value' = [i \in FieldIds |-> DefaultValue(layout.fields[i])]
  /\ checked' = [i \in FieldIds |-> ~layout.fields[i].checkbox]
  /\ SetDisplay(ClearErrors(layout, Display))
  /\ lastOp' = Op("reset", 0, "")
  /\ UNCHANGED <<layout, validationRules, isSubmitting, button, pc, event, emitted, logged,
                 labelBefore, prevented, accepted>>

\* setValues({[name]: v}): the first element of that name gets the value
SetValues(name, v) ==
  /\ UNCHANGED <<call, PageVars>>
  /\ QueryByName(layout, name) # 0
  /\ value' = [value EXCEPT ![QueryByName(layout, name)] = v]
  /\ lastOp' = Op("setValues", QueryByName(layout, name), "")
  /\ UNCHANGED <<layout, checked, invalid, errText, errDisplay, validationRules, isSubmitting,
                 button, pc, event, emitted, logged, labelBefore, prevented, accepted>>


(***************************************************************************)
(* Form.handleSubmit()                                                     *)
(*                                                                         *)
(* The function has no await: it runs to its end in one turn, except that  *)
(* dispatchEvent runs the listeners of the event before it returns.  A     *)
(* call is therefore modelled in up to three steps; between them the       *)
(* listeners act (PreventDefault, and the public operations above,         *)
(* including a nested handleSubmit).  fault says whether a statement of    *)
(* the try block raises.                                                   *)
(***************************************************************************)
Faults == {"none", "extract", "log"}

\* Finally, had the flag been left set
Finally_KeepsFlag ==
  /\ isSubmitting' = isSubmitting
  /\ button' = SetSubmitState(button, FALSE)
  /\ event' = NoEvent
  /\ pc' = "idle"

\* finally { this.isSubmitting = false; this.setSubmitState(false) }
Finally ==
  /\ isSubmitting' = FALSE
  /\ button' = SetSubmitState(button, FALSE)
  /\ event' = NoEvent
  /\ pc' = "idle"

\* Catch, had the error been swallowed without an event
Catch_Swallows(error) ==
  /\ event' = event
  /\ emitted' = emitted
  /\ pc' = "errorDispatch"

\* catch (error) { ... dispatchEvent(new CustomEvent('form:error', { detail: { error } })) }
Catch(error) ==
  /\ event' = NewCustomEvent("form:error", [error |-> error])
  /\ emitted' = Append(emitted, "form:error")
  /\ pc' = "errorDispatch"

\* AlreadySubmitting, had the re-entrancy check been left out
AlreadySubmitting_Unchecked(flag) == FALSE

\* if (this.isSubmitting) return
AlreadySubmitting(flag) == flag

\* the try block up to dispatchEvent(submitEvent), entered with formData as
\* extractFormData returns it
Dispatch(fault, formData) ==
  IF fault = "extract"
  THEN /\ event' = NewCustomEvent("form:error", [error |-> fault])
       /\ emitted' = <<"form:error">>
       /\ pc' = "errorDispatch"
  ELSE /\ event' = NewCustomEvent("form:submit", [formData |-> formData, form |-> TheForm])
       /\ emitted' = <<"form:submit">>
       /\ pc' = "submitDispatch"

\* handleSubmit after this.validateForm() returned validation (or raised)
AfterValidation(fault, validation) ==
  IF validation.threw \/ ~validation.isValid
  THEN /\ lastOp' = Op("handleSubmit", 0, IF validation.threw THEN "threw" ELSE "rejected")
       /\ UNCHANGED <<isSubmitting, button, pc, event, emitted, logged, labelBefore,
                      prevented, accepted>>
  ELSE /\ isSubmitting' = TRUE
       /\ button' = SetSubmitState(button, TRUE)
       /\ labelBefore' = button.text
       /\ accepted' = accepted + 1
       /\ logged' = FALSE
       /\ prevented' = FALSE
       /\ lastOp' = Op("handleSubmit", 0, "accepted")
       /\ Dispatch(fault, ExtractFormData(FormEntries(layout, value, checked)))

\* the call up to the point where the listeners of its first event run
HandleSubmit(fault) ==
  /\ UNCHANGED <<call, PageVars>>
  /\ accepted < MaxSubmits \/ isSubmitting
  /\ fault \in {"none", "extract"}
  /\ IF AlreadySubmitting(isSubmitting)
     THEN /\ lastOp' = Op("handleSubmit", 0, "ignored")
          /\ UNCHANGED <<layout, value, checked, invalid, errText, errDisplay, validationRules,
                         isSubmitting, button, pc, event, emitted, logged,
                         labelBefore, prevented, accepted>>
     ELSE /\ SetDisplay(FormValidateForm(layout, validationRules, Display, value, checked))
          /\ UNCHANGED <<layout, value, checked, validationRules>>
          /\ AfterValidation(fault, FormResult(layout, validationRules, value, checked))

\* a listener of the event being dispatched calls event.preventDefault()
PreventDefault ==
  /\ UNCHANGED <<call, PageVars>>
  /\ pc \in {"submitDispatch", "errorDispatch"}
  /\ event' = EventPreventDefault(event)
  /\ prevented' = (prevented \/ event.type = "form:submit")
  /\ lastOp' = Op("preventDefault", 0, "")
  /\ UNCHANGED <<layout, value, checked, invalid, errText, errDisplay, validationRules,
                 isSubmitting, button, pc, emitted, logged, labelBefore, accepted>>

\* dispatchEvent(submitEvent) returns: the default behaviour, then finally
DispatchReturn(fault) ==
  /\ UNCHANGED <<call, PageVars>>
  /\ pc = "submitDispatch"
  /\ fault \in {"none", "log"}
  /\ logged' = ~DefaultPrevented(event)
  /\ IF logged' /\ fault = "log"
     THEN /\ Catch(fault)
          /\ lastOp' = Op("dispatchReturn", 0, "raised")
          /\ UNCHANGED <<isSubmitting, button>>
     ELSE /\ Finally
          /\ lastOp' = Op("dispatchReturn", 0, "done")
          /\ UNCHANGED emitted
  /\ UNCHANGED <<layout, value, checked, invalid, errText, errDisplay, validationRules,
                 labelBefore, prevented, accepted>>

\* dispatchEvent(form:error) returns: finally
ErrorDispatchReturn ==
  /\ UNCHANGED <<call, PageVars>>
  /\ pc = "errorDispatch"
  /\ Finally
  /\ lastOp' = Op("errorReturn", 0, "done")
  /\ UNCHANGED <<layout, value, checked, invalid, errText, errDisplay, validationRules,
                 emitted, logged, labelBefore, prevented, accepted>>

Next ==
  \/ \E i \in FieldIds : \E v \in layout.fields[i].values : Input(i, v)
  \/ \E i \in FieldIds : Blur(i)
  \/ Reset
  \/ \E i \in FieldIds : \E v \in layout.fields[i].values : SetValues(layout.fields[i].name, v)
  \/ \E fault \in Faults : HandleSubmit(fault)
  \/ PreventDefault
  \/ \E fault \in Faults : DispatchReturn(fault)
  \/ ErrorDispatchReturn

Spec == Init /\ [][Next]_vars


(***************************************************************************)
(* Direct calls of validator.validateField, validator.validateForm and     *)
(* Form.parseRuleString.  A behaviour is one call: the initial state holds *)
(* its arguments, the step runs the function and records what it returns.  *)
(***************************************************************************)
\* rule tokens a data-validate attribute may be made of
MaxRules == 2

T_min == N_min \o <<":", "5">>
T_max == N_max \o <<":", "5">>
T_minLength == N_minLength \o <<":", "2">>
T_match == N_match \o <<":", "p">>
T_pattern == N_pattern \o <<":", "a">>
\* a name the registry does not hold, bare and with parameters
T_unknown == <<"x">>
T_unknownParams == <<"x", ":", "1", ",", "a">>
\* a parameter left empty, and a parameter that holds a colon
T_minEmpty == N_min \o <<":">>
T_matchColon == N_match \o <<":", "p", ":", "q">>

RuleTokens ==
  {N_required, N_email, N_phone, N_number, T_min, T_max, T_minLength, T_match, T_pattern,
   T_unknown, T_unknownParams, T_minEmpty, T_matchColon}

RECURSIVE JoinBar(_)
\* the tokens joined by "|"
JoinBar(tokens) ==
  IF Len(tokens) = 1 THEN tokens[1] ELSE tokens[1] \o <<"|">> \o JoinBar(Tail(tokens))

TokenLists == UNION {[1..n -> RuleTokens] : n \in 1..MaxRules}
RuleStrings == {JoinBar(tokens) : tokens \in TokenLists}

\* texts a field may hold
V_neg == <<"-", "1">>
V_plus == <<"+", "1", "5">>
V_padded == <<" ", "a">>
Texts == {V_empty, V_blank, V_a, V_ab, V_3, V_7, V_mail, V_neg, V_plus, V_padded}

\* the array of a multi-value field p, and an array of another field that
\* holds the same strings
A_p == JArr(F_password, <<V_a, V_b>>)
A_t == JArr(F_tags, <<V_a, V_b>>)

\* values validateField may be given
Values == {JStr(t) : t \in Texts} \cup {A_p, A_t, JUndef, JNull}

\* form snapshots: without field p, and with p holding a text or an array
NoData == <<>>
Snapshots ==
  {NoData, F_password :> JStr(V_a), F_password :> JStr(V_empty), F_password :> A_p}

ValidateFieldCalls ==
  [op : {"validateField"}, done : {FALSE}, value : Values, ruleString : RuleStrings,
   formData : Snapshots]

ParseCalls == [op : {"parseRuleString"}, done : {FALSE}, ruleString : RuleStrings]

\* rules maps over the fields p and c: a field carries no declaration (the
\* empty attribute), p one token, c a rule string
FormTokens == {N_required, T_match, T_min, T_pattern}
FormRuleStrings ==
  {JoinBar(tokens) : tokens \in UNION {[1..n -> FormTokens] : n \in 1..MaxRules}}

RuleMapOf(rp, rc) ==
  [f \in {g \in {F_password, F_confirm} : (IF g = F_password THEN rp ELSE rc) # NoAttr} |->
     ParseRuleString(IF f = F_password THEN rp ELSE rc)]

RuleMaps ==
  {RuleMapOf(rp, rc) : rp \in FormTokens \cup {NoAttr}, rc \in FormRuleStrings \cup {NoAttr}}

\* form snapshots over the fields p, c and o; JUndef stands for a field the
\* snapshot does not hold
A_c == JArr(F_confirm, <<V_a, V_b>>)

SnapshotOf(vp, vc, vo) ==
  [f \in {g \in {F_password, F_confirm, F_other} :
            (CASE g = F_password -> vp [] g = F_confirm -> vc [] OTHER -> vo) # JUndef} |->
     CASE f = F_password -> vp [] f = F_confirm -> vc [] OTHER -> vo]

FormSnapshots ==
  {SnapshotOf(vp, vc, vo) :
     vp \in {JUndef, JStr(V_empty), JStr(V_a), A_p},
     vc \in {JUndef, JStr(V_empty), JStr(V_a), A_c},
     vo \in {JUndef, JStr(V_a)}}

ValidateFormCalls ==
  [op : {"validateForm"}, done : {FALSE}, formData : FormSnapshots, validationRules : RuleMaps]

\* AddRule, had the registry been replaced by the new rule alone
AddRule_DropsOthers(reg, name, rule, message) ==
  [rules |-> SetKey(<<>>, name, rule), messages |-> SetKey(<<>>, name, message)]

\* validator.addRule(name, rule, message): this.rules[name] = rule,
\* this.messages[name] = message
AddRule(reg, name, rule, message) ==
  [rules |-> SetKey(reg.rules, name, rule), messages |-> SetKey(reg.messages, name, message)]

\* addRule(name, rule, message) on the built-in registry, followed by
\* validateField(value, [name]) and validateField(value, [other]): name is
\* new or the name of a built-in rule, rule and message are a predicate and
\* a message text taken from the built-in ones
AddRuleCalls ==
  [op : {"addRule"}, done : {FALSE}, validated : {FALSE},
   name : {T_unknown, N_required, N_alpha}, rule : {N_email, N_required, N_alpha},
   message : {N_url, N_phone}, other : {N_required, N_email},
   value : {JStr(V_empty), JStr(V_a), JStr(V_mail), JStr(V_7)}]

\* rule entries handed to validateField as they are: every built-in rule but
\* required, in the form a declaration of it compiles to (a RegExp for
\* pattern, one '' does not match)
JRegex(matches) == [k |-> "regex", v |-> <<matches>>]
EmptyInputEntries ==
  {BareRule(N_email), BareRule(N_url), BareRule(N_phone), BareRule(N_number),
   BareRule(N_integer), BareRule(N_alpha), BareRule(N_alphanumeric),
   ParamRule(N_minLength, <<JNum(2)>>), ParamRule(N_maxLength, <<JNum(5)>>),
   ParamRule(N_min, <<JNum(5)>>), ParamRule(N_max, <<JNum(5)>>),
   ParamRule(N_pattern, <<JRegex(FALSE)>>), ParamRule(N_match, <<JStr(F_password)>>)}

\* { rule, params, message }
WithMessage(rule, message) ==
  [obj |-> TRUE, rule |-> rule.rule, params |-> rule.params, message |-> message]
M_custom == JStr(<<"Too short">>)

\* entries with and without an override message, of rules with a fixed and
\* with a parametric registry message
MessageEntries ==
  {BareRule(N_email), BareRule(N_minLength), ParamRule(N_email, <<>>),
   WithMessage(ParamRule(N_email, <<>>), M_custom),
   ParamRule(N_minLength, <<JNum(2)>>),
   WithMessage(ParamRule(N_minLength, <<JNum(2)>>), M_custom),
   ParamRule(N_match, <<JStr(F_password)>>)}

RuleLists ==
  {<<e>> : e \in EmptyInputEntries} \cup UNION {[1..n -> MessageEntries] : n \in 1..MaxRules}

ValidateFieldDirectCalls ==
  [op : {"validateFieldDirect"}, done : {FALSE}, value : {JStr(V_empty), JStr(V_a)},
   rules : RuleLists, formData : {NoData, F_password :> JStr(V_empty)}]

\* the longest entry list given to extractFormData
MaxEntries == 3

\* entry lists of new FormData(form): pairs of a field name and a value
EntryLists ==
  UNION {[1..n -> {F_password, F_tags} \X {V_empty, V_a, V_b}] : n \in 1..MaxEntries}

ExtractCalls == [op : {"extractFormData"}, done : {FALSE}, entries : EntryLists]

ValidatorInit ==
  /\ FormInit
  /\ layout = ReadmeForm
  /\ call \in ValidateFieldCalls \cup ParseCalls \cup ValidateFormCalls \cup AddRuleCalls
              \cup ValidateFieldDirectCalls \cup ExtractCalls
  /\ PageIdle

FormVars ==
  <<layout, value, checked, invalid, errText, errDisplay, validationRules, isSubmitting,
    button, pc, event, emitted, logged, labelBefore, prevented, accepted, lastOp>>

\* validator.validateField(value, form.parseRuleString(ruleString), formData)
RunValidateField ==
  /\ call.op = "validateField" /\ ~call.done
  /\ call' = [op |-> "validateField", done |-> TRUE, value |-> call.value,
               ruleString |-> call.ruleString, formData |-> call.formData,
               rules |-> ParseRuleString(call.ruleString),
               result |-> ValidateField(BuiltinRegistry, call.value,
                                        ParseRuleString(call.ruleString), call.formData)]
  /\ UNCHANGED <<FormVars, PageVars>>

\* validator.validateField(value, rules, formData)
RunValidateFieldDirect ==
  /\ call.op = "validateFieldDirect" /\ ~call.done
  /\ call' = [op |-> "validateFieldDirect", done |-> TRUE, value |-> call.value,
               rules |-> call.rules, formData |-> call.formData,
               result |-> ValidateField(BuiltinRegistry, call.value, call.rules,
                                        call.formData)]
  /\ UNCHANGED <<FormVars, PageVars>>

\* validator.extractFormData(form), the form having the entries
RunExtractFormData ==
  /\ call.op = "extractFormData" /\ ~call.done
  /\ call' = [op |-> "extractFormData", done |-> TRUE, entries |-> call.entries,
               result |-> ExtractFormData(call.entries)]
  /\ UNCHANGED <<FormVars, PageVars>>

\* form.parseRuleString(ruleString)
RunParseRuleString ==
  /\ call.op = "parseRuleString" /\ ~call.done
  /\ call' = [op |-> "parseRuleString", done |-> TRUE, ruleString |-> call.ruleString,
               result |-> ParseRuleString(call.ruleString)]
  /\ UNCHANGED <<FormVars, PageVars>>

\* validator.validateForm(formData, validationRules)
RunValidateForm ==
  /\ call.op = "validateForm" /\ ~call.done
  /\ call' = [op |-> "validateForm", done |-> TRUE, formData |-> call.formData,
               validationRules |-> call.validationRules,
               result |-> ValidateForm(BuiltinRegistry, call.formData, call.validationRules)]
  /\ UNCHANGED <<FormVars, PageVars>>

\* validator.addRule(name, rule, message)
RunAddRule ==
  /\ call.op = "addRule" /\ ~call.done
  /\ call' = [op |-> "addRule", done |-> TRUE, validated |-> FALSE, name |-> call.name,
               rule |-> call.rule, message |-> call.message, other |-> call.other,
               value |-> call.value,
               registry |-> AddRule(BuiltinRegistry, call.name, call.rule, call.message)]
  /\ UNCHANGED <<FormVars, PageVars>>

\* validator.validateField(value, [name]) and validator.validateField(value,
\* [other]) on the registry addRule left
RunValidateFieldAfterAddRule ==
  /\ call.op = "addRule" /\ call.done /\ ~call.validated
  /\ call' = [op |-> "addRule", done |-> TRUE, validated |-> TRUE, name |-> call.name,
               rule |-> call.rule, message |-> call.message, other |-> call.other,
               value |-> call.value, registry |-> call.registry,
               result |-> ValidateField(call.registry, call.value, <<BareRule(call.name)>>,
                                        NoData),
               otherResult |-> ValidateField(call.registry, call.value,
                                             <<BareRule(call.other)>>, NoData)]
  /\ UNCHANGED <<FormVars, PageVars>>

ValidatorNext ==
  \/ RunValidateField
  \/ RunValidateFieldDirect
  \/ RunExtractFormData
  \/ RunParseRuleString
  \/ RunValidateForm
  \/ RunAddRule
  \/ RunValidateFieldAfterAddRule

ValidatorSpec == ValidatorInit /\ [][ValidatorNext]_vars


(***************************************************************************)
(* storage.js: the localStorage wrapper                                    *)
(***************************************************************************)
\* the clock is followed for MaxTime milliseconds
MaxTime == 3
\* the longest time to live given to setWithTTL
MaxTtl == 2

\* an object with the given own properties
JObj(props) == [k |-> "obj", v |-> props]
HasOwnProperty(x, name) == x.k = "obj" /\ name \in DOMAIN x.v
\* typeof x === 'object'
TypeofObject(x) == x.k \in {"obj", "arr", "null"}

\* a stored text that is not JSON, and the JSON text that parses to v
Raw(s) == [k |-> "raw", text |-> s]
Json(v) == [k |-> "json", parsed |-> v]

\* what JSON.stringify makes of a property value: NaN becomes null
JsonValue(x) == IF x.k = "nan" THEN JNull ELSE x
Serializable(x) == x.k \notin {"undef", "fun"}
\* JSON.stringify(x) as localStorage.setItem stores it: undefined is stored
\* as the text 'undefined', an object loses its undefined properties
Stringify(x) ==
  IF ~Serializable(x) THEN Raw("undefined")
  ELSE IF x.k = "obj"
    THEN Json(JObj([n \in {m \in DOMAIN x.v : Serializable(x.v[m])} |-> JsonValue(x.v[n])]))
    ELSE Json(JsonValue(x))

\* storage.set(key, value); full: localStorage.setItem raises (quota exceeded)
Set(store, key, x, full) ==
  IF full THEN [store |-> store, returned |-> JBool(FALSE)]
  ELSE [store |-> [store EXCEPT ![key] = Stringify(x)], returned |-> JBool(TRUE)]

\* storage.get(key, defaultValue): JSON.parse raises on a text that is not JSON
Get(store, key, defaultValue) ==
  IF store[key] = Missing THEN defaultValue
  ELSE IF store[key].k = "raw" THEN defaultValue
  ELSE store[key].parsed

\* storage.remove(key)
Remove(store, key) == [store EXCEPT ![key] = Missing]

\* storage.setWithTTL(key, value, ttl) at time now
SetWithTTL(store, now, key, x, ttl, full) ==
  Set(store, key, JObj([value |-> x, expiry |-> JNum(now + ttl)]), full)

\* Date.now() > item.expiry
Expired_AtExpiry(now, expiry) == NumGeq(JNum(now), ToNumber(expiry))
Expired(now, expiry) == ~NumLeq(JNum(now), ToNumber(expiry)) /\ ~IsNaN(ToNumber(expiry))

\* item.value
ValueOf(item) == IF "value" \in DOMAIN item.v THEN item.v.value ELSE JUndef

\* storage.getWithTTL(key, defaultValue) at time now, item being this.get(key)
CheckExpiry(store, now, key, defaultValue, item) ==
  IF Falsy(item) \/ ~TypeofObject(item) \/ ~HasOwnProperty(item, "expiry")
    THEN [store |-> store, returned |-> defaultValue]
  ELSE IF Expired(now, item.v.expiry)
    THEN [store |-> Remove(store, key), returned |-> defaultValue]
  ELSE [store |-> store, returned |-> ValueOf(item)]

GetWithTTL(store, now, key, defaultValue) ==
  CheckExpiry(store, now, key, defaultValue, Get(store, key, JNull))

\* the values the page stores, the texts it stores without an expiry, and
\* the defaults it asks for
StoredValues == {JStr(V_a), JNum(0), JUndef}
PlainValues == {JStr(V_a), JNull, JUndef, JObj([value |-> JStr(V_a)])}
DefaultValues == {JNull, JStr(V_b)}
Ttls == (0 - 1)..MaxTtl

NotStorage == <<FormVars, call, ThemeVars, timers, ToastVars, ModalVars>>

StorageSet(key, x, full) ==
  /\ localStorage' = Set(localStorage, key, x, full).store
  /\ storageCall' = [op |-> "set", key |-> key, value |-> x,
                     returned |-> Set(localStorage, key, x, full).returned]
  /\ UNCHANGED <<clock, NotStorage>>

StorageSetWithTTL(key, x, ttl, full) ==
  /\ localStorage' = SetWithTTL(localStorage, clock, key, x, ttl, full).store
  /\ storageCall' = [op |-> "setWithTTL", key |-> key, value |-> x, ttl |-> ttl,
                     returned |-> SetWithTTL(localStorage, clock, key, x, ttl, full).returned]
  /\ UNCHANGED <<clock, NotStorage>>

StorageGetWithTTL(key, defaultValue) ==
  /\ localStorage' = GetWithTTL(localStorage, clock, key, defaultValue).store
  /\ storageCall' = [op |-> "getWithTTL", key |-> key, defaultValue |-> defaultValue,
                     now |-> clock, item |-> Get(localStorage, key, JNull),
                     returned |-> GetWithTTL(localStorage, clock, key, defaultValue).returned]
  /\ UNCHANGED <<clock, NotStorage>>

StorageRemove(key) ==
  /\ localStorage' = Remove(localStorage, key)
  /\ storageCall' = [op |-> "remove", key |-> key, returned |-> JBool(TRUE)]
  /\ UNCHANGED <<clock, NotStorage>>

\* a millisecond passes
Tick ==
  /\ clock < MaxTime
  /\ clock' = clock + 1
  /\ UNCHANGED <<localStorage, storageCall, NotStorage>>

StorageInit ==
  /\ FormInit
  /\ layout = ReadmeForm
  /\ call = NoCall
  /\ PageIdle

StorageNext ==
  \/ \E x \in PlainValues, full \in BOOLEAN : StorageSet("k", x, full)
  \/ \E x \in StoredValues, ttl \in Ttls, full \in BOOLEAN :
       StorageSetWithTTL("k", x, ttl, full)
  \/ \E d \in DefaultValues : StorageGetWithTTL("k", d)
  \/ StorageRemove("k")
  \/ Tick

StorageSpec == StorageInit /\ [][StorageNext]_vars


(***************************************************************************)
(* The theme manager                                                       *)
(***************************************************************************)
\* init is followed for MaxListeners calls (each installs a listener)
MaxListeners == 2

Themes == {"light", "dark"}

\* getStoredTheme(): localStorage.getItem('theme'), null when nothing is stored
GetStoredTheme(store) == IF store["theme"] = Missing THEN NoTheme ELSE store["theme"].text

\* getSystemTheme()
GetSystemTheme(dark) == IF dark THEN "dark" ELSE "light"

\* updateMetaThemeColor(theme)
MetaThemeColor(theme) == IF theme = "dark" THEN "#1f2937" ELSE "#ffffff"

\* updateThemeToggles(theme): the label of the toggle button
ToggleLabel(theme) == IF theme = "dark" THEN "Switch to light mode" ELSE "Switch to dark mode"

\* applyTheme(theme): the document and the manager afterwards
AppliedDom(dom, theme) ==
  [dataTheme |-> theme, classes |-> (dom.classes \ {"light", "dark"}) \cup {theme},
   metaColor |-> MetaThemeColor(theme), toggleLabel |-> ToggleLabel(theme)]
AppliedManager(mgr, theme) == [mgr EXCEPT !.currentTheme = theme]

ApplyTheme(theme) ==
  /\ themeDom' = AppliedDom(themeDom, theme)
  /\ themeManager' = AppliedManager(themeManager, theme)

\* a || b on theme names
OrTheme(a, b) == IF a # NoTheme THEN a ELSE b

NotTheme == <<FormVars, call, clock, storageCall, timers, ToastVars, ModalVars>>

\* themeManager.init()
ThemeManagerInit ==
  /\ themeManager.listeners < MaxListeners
  /\ themeDom' = AppliedDom(themeDom, OrTheme(GetStoredTheme(localStorage),
                                              GetSystemTheme(prefersDark)))
  /\ themeManager' = [currentTheme |-> OrTheme(GetStoredTheme(localStorage),
                                                GetSystemTheme(prefersDark)),
                      listeners |-> themeManager.listeners + 1]
  /\ themeCall' = [op |-> "init", before |-> themeManager.currentTheme,
                   event |-> NoThemeEvent]
  /\ UNCHANGED <<localStorage, prefersDark, NotTheme>>

\* the detail of the themeChanged event setTheme builds once applyTheme has
\* returned, mgr being the manager at that moment
ThemeChanged(theme, mgr) ==
  [type |-> "themeChanged", theme |-> theme, previousTheme |-> mgr.currentTheme]

\* setTheme(theme), called as op; full: localStorage.setItem raises
RunSetTheme(op, theme, full) ==
  IF full
    THEN /\ themeCall' = [op |-> op, theme |-> theme, before |-> themeManager.currentTheme,
                          event |-> NoThemeEvent]
         /\ UNCHANGED <<localStorage, themeDom, themeManager>>
    ELSE /\ localStorage' = [localStorage EXCEPT !["theme"] = Raw(theme)]
         /\ ApplyTheme(theme)
         /\ themeCall' = [op |-> op, theme |-> theme, before |-> themeManager.currentTheme,
                          event |-> ThemeChanged(theme, AppliedManager(themeManager, theme))]

\* themeManager.setTheme(theme)
SetTheme(theme, full) ==
  /\ RunSetTheme("setTheme", theme, full)
  /\ UNCHANGED <<prefersDark, NotTheme>>

\* themeManager.toggle()
Toggle(full) ==
  /\ RunSetTheme("toggle", IF themeManager.currentTheme = "dark" THEN "light" ELSE "dark",
                 full)
  /\ UNCHANGED <<prefersDark, NotTheme>>

\* themeManager.useSystemTheme()
UseSystemTheme ==
  /\ localStorage' = Remove(localStorage, "theme")
  /\ ApplyTheme(GetSystemTheme(prefersDark))
  /\ themeCall' = [op |-> "useSystemTheme", before |-> themeManager.currentTheme,
                   event |-> NoThemeEvent]
  /\ UNCHANGED <<prefersDark, NotTheme>>

\* the 'change' listener of watchSystemTheme acts: no manual theme is stored
ListenerApplies_Always(store) == TRUE
ListenerApplies(store) == GetStoredTheme(store) = NoTheme

\* the system colour scheme changes; the listeners init installed, if any, run
SystemThemeChange ==
  /\ prefersDark' = ~prefersDark
  /\ IF themeManager.listeners > 0 /\ ListenerApplies(localStorage)
       THEN ApplyTheme(GetSystemTheme(~prefersDark))
       ELSE UNCHANGED <<themeDom, themeManager>>
  /\ themeCall' = [op |-> "systemChange", before |-> themeManager.currentTheme,
                   event |-> NoThemeEvent]
  /\ UNCHANGED <<localStorage, NotTheme>>

\* the page loads with or without a theme stored by an earlier visit
ThemeInit ==
  /\ FormInit
  /\ layout = ReadmeForm
  /\ call = NoCall
  /\ clock = 0
  /\ storageCall = NoStorageCall
  /\ localStorage \in {[key \in StorageKeys |-> IF key = "theme" THEN t ELSE Missing] :
                        t \in {Missing} \cup {Raw(theme) : theme \in Themes}}
  /\ prefersDark \in BOOLEAN
  /\ ThemeIdle
  /\ timers = <<>>
  /\ ToastIdle
  /\ ModalIdle

ThemeNext ==
  \/ ThemeManagerInit
  \/ \E theme \in Themes, full \in BOOLEAN : SetTheme(theme, full)
  \/ \E full \in BOOLEAN : Toggle(full)
  \/ UseSystemTheme
  \/ SystemThemeChange

ThemeSpec == ThemeInit /\ [][ThemeNext]_vars


(***************************************************************************)
(* Timers: setTimeout callbacks run in the order of their due times, and   *)
(* in the order they were set when the due times are equal; a callback     *)
(* never runs before its due time.                                         *)
(***************************************************************************)
\* at most MaxTimers callbacks are pending at a time
MaxTimers == 4

\* setTimeout(callback, delay) at time now; id and el are what the callback
\* captured
SetTimeout(ts, now, kind, delay, id, el) ==
  Append(ts, [kind |-> kind, due |-> now + delay, id |-> id, el |-> el])

\* the callback that runs next
NextTimer(ts) ==
  CHOOSE i \in 1..Len(ts) :
    \A j \in 1..Len(ts) : ts[i].due < ts[j].due \/ (ts[i].due = ts[j].due /\ i <= j)

\* the callback that runs next is due and of the given kind
Due(ts, now, kind) ==
  ts # <<>> /\ ts[NextTimer(ts)].due <= now /\ ts[NextTimer(ts)].kind = kind

WithoutTimer(ts, i) == SubSeq(ts, 1, i - 1) \o SubSeq(ts, i + 1, Len(ts))

\* time passes until the next callback is due
Elapse ==
  /\ timers # <<>>
  /\ timers[NextTimer(timers)].due > clock
  /\ clock' = timers[NextTimer(timers)].due
  /\ UNCHANGED <<localStorage, storageCall, NotStorage>>

(***************************************************************************)
(* Toast                                                                   *)
(***************************************************************************)
\* show is followed for MaxToasts calls
MaxToasts == 2

DefaultDuration == 5000
AnimateDelay == 10
RemoveDelay == 300

\* a toast element as createToast returns it (translate-x-full is among its
\* classes), remembered with the duration it was shown for
NewToast(duration) ==
  [slideUp |-> FALSE, translateFull |-> TRUE, opacity0 |-> FALSE, duration |-> duration]

Range(f) == {f[x] : x \in DOMAIN f}
RemoveKey(f, key) == [x \in DOMAIN f \ {key} |-> f[x]]
Without(seq, el) == SelectSeq(seq, LAMBDA e : e # el)

\* dismiss(id) at time now: st is [els, timers], map is this.toasts
Dismiss(st, now, map, id) ==
  IF id \notin DOMAIN map THEN st
  ELSE [els |-> [st.els EXCEPT ![map[id]].translateFull = TRUE, ![map[id]].opacity0 = TRUE,
                               ![map[id]].slideUp = FALSE],
        timers |-> SetTimeout(st.timers, now, "remove", RemoveDelay, id, map[id])]

\* the keys of the Map in insertion order: ids are clock readings
RECURSIVE KeysInOrder(_)
KeysInOrder(S) ==
  IF S = {} THEN <<>>
  ELSE <<CHOOSE x \in S : \A y \in S : x <= y>>
       \o KeysInOrder(S \ {CHOOSE x \in S : \A y \in S : x <= y})

RECURSIVE DismissEach(_, _, _, _)
\* this.toasts.forEach((_, id) => this.dismiss(id))
DismissEach(st, now, map, ids) ==
  IF ids = <<>> THEN st
  ELSE DismissEach(Dismiss(st, now, map, Head(ids)), now, map, Tail(ids))

\* the id the dismiss button's handler finds for its toast (0 with found
\* FALSE when the Map holds the toast under no id)
HoldsToast(map, el) == \E id \in DOMAIN map : map[id] = el
IdOf(map, el) == CHOOSE id \in DOMAIN map : map[id] = el /\ \A other \in DOMAIN map :
                                              map[other] = el => id <= other

NotToast == <<FormVars, call, localStorage, storageCall, ThemeVars, ModalVars>>

\* the timers Show sets: the animation, and the auto dismiss when duration > 0
ShowTimers(ts, now, duration, id, el) ==
  IF duration > 0
    THEN SetTimeout(SetTimeout(ts, now, "animate", AnimateDelay, id, el),
                    now, "autoDismiss", duration, id, el)
    ELSE SetTimeout(ts, now, "animate", AnimateDelay, id, el)

\* toast.show(message, type, duration): the id is Date.now().toString()
Show(duration) ==
  /\ Len(toastEls) < MaxToasts
  /\ Len(timers) + 2 <= MaxTimers
  /\ toastEls' = Append(toastEls, NewToast(duration))
  /\ toasts' = SetKey(toasts, clock, Len(toastEls) + 1)
  /\ container' = Append(container, Len(toastEls) + 1)
  /\ timers' = ShowTimers(timers, clock, duration, clock, Len(toastEls) + 1)
  /\ UNCHANGED <<clock, NotToast>>

SetDismissed(st) ==
  /\ toastEls' = st.els
  /\ timers' = st.timers

\* toast.dismiss(id)
ToastDismiss(id) ==
  /\ Len(timers) < MaxTimers
  /\ id \in DOMAIN toasts
  /\ SetDismissed(Dismiss([els |-> toastEls, timers |-> timers], clock, toasts, id))
  /\ UNCHANGED <<clock, toasts, container, NotToast>>

\* the user clicks the dismiss button of toast element el
ClickDismiss(el) ==
  /\ Len(timers) < MaxTimers
  /\ el \in Range(container)
  /\ IF HoldsToast(toasts, el)
       THEN SetDismissed(Dismiss([els |-> toastEls, timers |-> timers], clock, toasts,
                                 IdOf(toasts, el)))
       ELSE UNCHANGED <<toastEls, timers>>
  /\ UNCHANGED <<clock, toasts, container, NotToast>>

\* toast.dismissAll()
DismissAll ==
  /\ Len(timers) + Cardinality(DOMAIN toasts) <= MaxTimers
  /\ toasts # <<>>
  /\ SetDismissed(DismissEach([els |-> toastEls, timers |-> timers], clock, toasts,
                              KeysInOrder(DOMAIN toasts)))
  /\ UNCHANGED <<clock, toasts, container, NotToast>>

\* the animation callback of show runs
FireAnimate ==
  /\ Due(timers, clock, "animate")
  /\ toastEls' = [toastEls EXCEPT ![timers[NextTimer(timers)].el].slideUp = TRUE]
  /\ timers' = WithoutTimer(timers, NextTimer(timers))
  /\ UNCHANGED <<clock, toasts, container, NotToast>>

\* the auto dismiss callback of show runs: this.dismiss(id)
FireAutoDismiss ==
  /\ Due(timers, clock, "autoDismiss")
  /\ SetDismissed(Dismiss([els |-> toastEls,
                           timers |-> WithoutTimer(timers, NextTimer(timers))],
                          clock, toasts, timers[NextTimer(timers)].id))
  /\ UNCHANGED <<clock, toasts, container, NotToast>>

\* the callback of dismiss runs: the toast it captured leaves the container,
\* the id it captured leaves the Map
FireRemove ==
  /\ Due(timers, clock, "remove")
  /\ container' = Without(container, timers[NextTimer(timers)].el)
  /\ toasts' = RemoveKey(toasts, timers[NextTimer(timers)].id)
  /\ timers' = WithoutTimer(timers, NextTimer(timers))
  /\ UNCHANGED <<clock, toastEls, NotToast>>

ToastInit ==
  /\ FormInit
  /\ layout = ReadmeForm
  /\ call = NoCall
  /\ PageIdle

ToastNext ==
  \/ \E duration \in {0, DefaultDuration} : Show(duration)
  \/ \E id \in DOMAIN toasts : ToastDismiss(id)
  \/ \E el \in 1..Len(toastEls) : ClickDismiss(el)
  \/ DismissAll
  \/ FireAnimate
  \/ FireAutoDismiss
  \/ FireRemove
  \/ Tick
  \/ Elapse

ToastSpec == ToastInit /\ [][ToastNext]_vars

(***************************************************************************)
(* Modal                                                                   *)
(***************************************************************************)
\* open is followed for MaxOpens calls that open the modal
MaxOpens == 2

FocusDelay == 100

\* the modal's first focusable element, and focusable elements of the page
ModalElements == {"modalClose"}
PageElements == {"trigger", "other"}

\* the class 'hidden' takes the modal's element out of rendering
Unrendered(m, css) == m.hidden /\ css.hidden = "none"

\* el.focus() takes effect: body is not focusable, nor is an element that is
\* not rendered
Focusable(el, m, css) ==
  /\ el \in ModalElements \cup PageElements
  /\ el \in ModalElements => ~Unrendered(m, css)

\* document.activeElement after el.focus()
Focused(active, el, m, css) == IF Focusable(el, m, css) THEN el ELSE active

\* document.activeElement once the modal's element has the classes of m: the
\* focus leaves an element that is no longer rendered
AfterRendering(active, m, css) ==
  IF active \in ModalElements /\ Unrendered(m, css) THEN "body" ELSE active

NotModal == <<FormVars, call, localStorage, storageCall, ThemeVars, ToastVars>>

Opened(m, active) ==
  [isOpen |-> TRUE, previousActiveElement |-> active, hidden |-> FALSE,
   fadeIn |-> TRUE, scaleIn |-> TRUE, bodyLocked |-> TRUE, opens |-> m.opens + 1]

Closed(m) ==
  [isOpen |-> FALSE, previousActiveElement |-> NoElement, hidden |-> TRUE,
   fadeIn |-> FALSE, scaleIn |-> FALSE, bodyLocked |-> FALSE, opens |-> m.opens]

\* modal.open()
Open ==
  /\ modal.opens < MaxOpens
  /\ Len(timers) < MaxTimers
  /\ IF modal.isOpen
       THEN /\ modalCall' = [op |-> "open", acted |-> FALSE]
            /\ UNCHANGED <<modal, timers>>
       ELSE /\ modal' = Opened(modal, activeElement)
            /\ timers' = SetTimeout(timers, clock, "focus", FocusDelay, 0, 0)
            /\ modalCall' = [op |-> "open", acted |-> TRUE]
  /\ UNCHANGED <<clock, activeElement, stylesheet, NotModal>>

\* modal.close()
Close ==
  /\ IF ~modal.isOpen
       THEN /\ modalCall' = [op |-> "close", acted |-> FALSE]
            /\ UNCHANGED <<modal, activeElement>>
       ELSE /\ modal' = Closed(modal)
            /\ activeElement' =
                 IF modal.previousActiveElement # NoElement
                   THEN Focused(AfterRendering(activeElement, Closed(modal), stylesheet),
                                modal.previousActiveElement, Closed(modal), stylesheet)
                   ELSE AfterRendering(activeElement, Closed(modal), stylesheet)
            /\ modalCall' = [op |-> "close", acted |-> TRUE,
                             before |-> modal.previousActiveElement]
  /\ UNCHANGED <<clock, timers, stylesheet, NotModal>>

\* the callback open set runs: focusableElements[0].focus()
FireFocus ==
  /\ Due(timers, clock, "focus")
  /\ activeElement' = Focused(activeElement, "modalClose", modal, stylesheet)
  /\ timers' = WithoutTimer(timers, NextTimer(timers))
  /\ UNCHANGED <<clock, modal, stylesheet, modalCall, NotModal>>

\* the user moves the focus to an element by a click or a key
UserFocus(el) ==
  /\ Focusable(el, modal, stylesheet)
  /\ el # activeElement
  /\ activeElement' = el
  /\ modalCall' = [op |-> "focus", acted |-> TRUE]
  /\ UNCHANGED <<clock, timers, modal, stylesheet, NotModal>>

\* the page is shown with or without a style sheet rule that makes 'hidden'
\* display: none, the focus on the body or on the control that opens the modal
ModalInit ==
  /\ FormInit
  /\ layout = ReadmeForm
  /\ call = NoCall
  /\ clock = 0
  /\ localStorage = [key \in StorageKeys |-> Missing]
  /\ storageCall = NoStorageCall
  /\ prefersDark = FALSE
  /\ ThemeIdle
  /\ timers = <<>>
  /\ ToastIdle
  /\ modal = ClosedModal
  /\ activeElement \in {"body", "trigger"}
  /\ stylesheet \in {[hidden |-> "none"], [hidden |-> "unset"]}
  /\ modalCall = NoModalCall

ModalNext ==
  \/ Open
  \/ Close
  \/ FireFocus
  \/ \E el \in ModalElements \cup PageElements : UserFocus(el)
  \/ Tick
  \/ Elapse

ModalSpec == ModalInit /\ [][ModalNext]_vars


(***************************************************************************)
(* Properties of the submission controller.                                *)
(***************************************************************************)
\* the form data of the current field values
CurrentData == ExtractFormData(FormEntries(layout, value, checked))

\* what the Field Validator returns for the rules declared under name f
DeclaredResult(f) ==
  ValidateField(BuiltinRegistry, FieldValueOrEmpty(CurrentData, f), validationRules[f],
                CurrentData)

\* the Form Validator raises on the current values
ValidationRaises == \E f \in DOMAIN validationRules : DeclaredResult(f).threw
\* the Form Validator reports the current values invalid
SomeFieldFails ==
  ~ValidationRaises /\ \E f \in DOMAIN validationRules : ~DeclaredResult(f).isValid
\* the Form Validator reports the current values valid
AllFieldsPass ==
  ~ValidationRaises /\ \A f \in DOMAIN validationRules : DeclaredResult(f).isValid

\* number of form:submit events among the emitted ones
SubmitCount(types) == Cardinality({k \in 1..Len(types) : types[k] = "form:submit"})

\* this step is a call of handleSubmit
SubmitStep == lastOp'.op = "handleSubmit" /\ lastOp'.outcome # ""

\* C1: once a call of handleSubmit has finished -- rejected by validation,
\* completed after the form:submit dispatch, or completed after an error
\* raised inside the try block -- isSubmitting is false.
C1_FlagClearedOnEveryPath ==
  ( \/ (lastOp.op = "handleSubmit" /\ lastOp.outcome \in {"rejected", "threw"})
    \/ (lastOp.op = "dispatchReturn" /\ lastOp.outcome = "done")
    \/ lastOp.op = "errorReturn" )
  => (~isSubmitting /\ pc = "idle")

C1_Witness ==
  /\ lastOp.op = "errorReturn"
  /\ emitted = <<"form:submit", "form:error">>
  /\ ~isSubmitting

\* C2: a call of handleSubmit that arrives while isSubmitting is true runs no
\* validation, changes no state and dispatches no event, so that while the
\* listeners of form:submit run exactly one form:submit has been emitted.
C2_ReentrantSubmitIsNoOp ==
  [][(SubmitStep /\ isSubmitting)
       => /\ lastOp'.outcome = "ignored"
          /\ UNCHANGED <<value, checked, invalid, errText, errDisplay, isSubmitting, button,
                         pc, event, emitted, logged, accepted>>
          /\ (pc = "submitDispatch" => SubmitCount(emitted') = 1)]_vars

C2_Witness ==
  /\ lastOp = Op("handleSubmit", 0, "ignored")
  /\ pc = "submitDispatch"
  /\ isSubmitting
  /\ emitted = <<"form:submit">>

\* C3: a submit arriving in Idle with a form the Form Validator reports
\* invalid shows the errors (every failing field is marked and its error
\* location, when it has one, shows the field's first message) and stays
\* Idle: nothing is dispatched, isSubmitting stays false, the button is
\* not touched.
C3_InvalidSubmitStaysIdle ==
  [][(SubmitStep /\ ~isSubmitting /\ SomeFieldFails)
       => /\ lastOp'.outcome = "rejected"
          /\ ~isSubmitting' /\ pc' = "idle"
          /\ UNCHANGED <<button, event, emitted, logged, accepted>>
          /\ \A f \in DOMAIN validationRules :
               ~DeclaredResult(f).isValid =>
                 /\ QueryByName(layout, f) # 0 => invalid'[QueryByName(layout, f)]
                 /\ ErrorContainer(layout, f) # 0 =>
                      /\ errText'[ErrorContainer(layout, f)] = TextOf(DeclaredResult(f).errors[1])
                      /\ errDisplay'[ErrorContainer(layout, f)] = "block"]_vars

C3_Witness ==
  /\ lastOp = Op("handleSubmit", 0, "rejected")
  /\ SomeFieldFails
  /\ \E i \in FieldIds : invalid[i]
  /\ \E c \in ContainerIds : errDisplay[c] = "block"
  /\ emitted = <<>>

\* C4: a submit arriving in Idle with a valid form disables the submit button
\* and then dispatches one form:submit event whose detail holds the data
\* extracted from the current (just validated) values and the form element;
\* no call emits a second form:submit.  (The step that ends in errorDispatch
\* is the raising extraction, see C5.)
C4_ValidSubmitDispatchesOnce ==
  [][/\ (SubmitStep /\ ~isSubmitting /\ AllFieldsPass /\ pc' # "errorDispatch")
          => /\ pc' = "submitDispatch"
             /\ emitted' = <<"form:submit">>
             /\ event'.type = "form:submit"
             /\ event'.detail = [formData |-> CurrentData, form |-> TheForm]
             /\ value' = value /\ checked' = checked
             /\ button.present => button'.disabled
     /\ SubmitCount(emitted') <= 1]_vars

C4_Witness ==
  /\ lastOp = Op("handleSubmit", 0, "accepted")
  /\ pc = "submitDispatch"
  /\ button.present /\ button.disabled
  /\ event.type = "form:submit"
  /\ \E f \in DOMAIN event.detail.formData : event.detail.formData[f].v # <<>>

\* C5: when a statement of the try block raises, a form:error event carrying
\* that error is dispatched, and once its listeners have run the controller
\* is Idle again with the submit button enabled.
C5_ErrorIsReportedAndIdleRestored ==
  /\ pc = "errorDispatch" =>
       /\ event.type = "form:error"
       /\ emitted[Len(emitted)] = "form:error"
       /\ event.detail.error = (IF emitted = <<"form:error">> THEN "extract" ELSE "log")
  /\ lastOp.op = "errorReturn" =>
       /\ pc = "idle" /\ ~isSubmitting
       /\ ~button.disabled

C5_Witness ==
  /\ lastOp.op = "errorReturn"
  /\ button.present /\ ~button.disabled
  /\ emitted = <<"form:error">>


\* C6: when a listener of form:submit called preventDefault on the event,
\* the controller's default 'Form submitted' logging does not run.
C6_PreventDefaultSuppressesDefault == prevented => ~logged

\* C7: after an accepted submission has completed the submit button is
\* enabled and shows the label it had when the submission started.
C7_LabelRestored ==
  (pc = "idle" /\ accepted > 0 /\ button.present)
    => (~button.disabled /\ button.text = labelBefore)

\* every rule entry declared in the form
DeclaredRules ==
  UNION {{validationRules[f][k] : k \in 1..Len(validationRules[f])} : f \in DOMAIN validationRules}

\* the field names that a match rule of some validated field reads
MatchTargets ==
  {ToStr(r.params[1]) :
     r \in {q \in DeclaredRules : q.obj /\ q.rule = N_match /\ Len(q.params) > 0}}

\* the verdict of the Form Validator on field values vals
VerdictOn(vals, chk) ==
  LET r == FormResult(layout, validationRules, vals, chk)
  IN IF r.threw THEN "raises" ELSE IF r.isValid THEN "valid" ELSE "invalid"

\* the verdict does not depend on what field i holds
VerdictIgnores(i) ==
  /\ \A v \in layout.fields[i].values \cup {V_empty} :
       VerdictOn([value EXCEPT ![i] = v], checked) = VerdictOn(value, checked)
  /\ VerdictOn(value, [checked EXCEPT ![i] = layout.fields[i].checkbox /\ ~checked[i]])
       = VerdictOn(value, checked)

\* an input or blur event on a field without rules changes no error display
UnruledEventKeepsDisplay ==
  (lastOp'.op \in {"input", "blur"} /\ ~HasRules(layout, validationRules, lastOp'.field))
    => UNCHANGED <<invalid, errText, errDisplay>>

\* a submit is accepted or rejected as the validated fields alone decide
SubmitDecidedByVerdict ==
  (SubmitStep /\ ~isSubmitting)
    => (lastOp'.outcome = "accepted" <=> VerdictOn(value, checked) = "valid")

\* C8 as stated: a field without an entry in validationRules is never
\* validated (an input or blur on it changes no error display) and no value
\* of it changes the verdict of the Form Validator.
C8_UnruledFieldNeverMatters ==
  /\ [][UnruledEventKeepsDisplay]_vars
  /\ [](\A i \in FieldIds : ~HasRules(layout, validationRules, i) => VerdictIgnores(i))

\* C8 amended: the same, for every field without rules that no match rule of
\* a validated field names; the submit is then accepted exactly when the
\* validated fields pass.
C8_UnruledFieldMattersOnlyThroughMatch ==
  /\ [][UnruledEventKeepsDisplay /\ SubmitDecidedByVerdict]_vars
  /\ [](\A i \in FieldIds :
          (~HasRules(layout, validationRules, i) /\ layout.fields[i].name \notin MatchTargets)
            => VerdictIgnores(i))

C8_Witness ==
  /\ lastOp.op = "input"
  /\ ~HasRules(layout, validationRules, lastOp.field)
  /\ layout.fields[lastOp.field].name \notin MatchTargets
  /\ value[lastOp.field] # V_empty
  /\ \E j \in FieldIds : invalid[j]
  /\ VerdictOn(value, checked) = "invalid"

\* the display Form.validateField must leave for field i: marked exactly when
\* its own result has errors, its error location showing the first of them
OwnResultShown(i) ==
  LET result == ValidateField(BuiltinRegistry, JStr(value'[i]),
                              validationRules[layout.fields[i].name],
                              ExtractFormData(FormEntries(layout, value', checked')))
      c == ErrorContainer(layout, layout.fields[i].name)
  IN ~result.threw =>
       /\ invalid'[i] = (result.errors # <<>>)
       /\ c # 0 => /\ errText'[c] = (IF result.errors # <<>> THEN TextOf(result.errors[1])
                                     ELSE <<>>)
                   /\ errDisplay'[c] = (IF result.errors # <<>> THEN "block" ELSE "none")

\* C9: an input or blur event on a field re-validates that field only: its
\* marking and its error location follow its own result, the marking of
\* every other field and every other error location stay as they were.
C9_RealTimeValidationTouchesOneField ==
  [][lastOp'.op \in {"input", "blur"}
       => /\ \A j \in FieldIds \ {lastOp'.field} : invalid'[j] = invalid[j]
          /\ \A c \in ContainerIds \ {ErrorContainer(layout, layout.fields[lastOp'.field].name)} :
               errText'[c] = errText[c] /\ errDisplay'[c] = errDisplay[c]
          /\ HasRules(layout, validationRules, lastOp'.field) => OwnResultShown(lastOp'.field)]_vars

C9_Witness ==
  /\ lastOp.op = "input"
  /\ invalid[lastOp.field]
  /\ \E c \in ContainerIds : errDisplay[c] = "block"
  /\ \E f \in DOMAIN validationRules :
       /\ f # layout.fields[lastOp.field].name
       /\ ~DeclaredResult(f).isValid
       /\ ~invalid[QueryByName(layout, f)]

\* C10: after clearErrors (Form.reset) no field is marked invalid and no
\* error location shows a message.
C10_ResetRestoresPristine ==
  lastOp.op = "reset"
    => /\ \A i \in FieldIds : ~invalid[i]
       /\ \A c \in ContainerIds : errText[c] = <<>> /\ errDisplay[c] # "block"


(***************************************************************************)
(* Properties of the Field Validator, the Form Validator and the Rule      *)
(* Parser, over direct calls.                                              *)
(***************************************************************************)
\* a call of validateField has run
FieldCallDone == call.op = "validateField" /\ call.done

\* the entry names a rule the registry does not hold
IsUnknown(rule) == ~HasRule(BuiltinRegistry, rule.rule)
IsKnown(rule) == HasRule(BuiltinRegistry, rule.rule)

\* C11: a rule entry whose name the registry does not hold is inert in
\* validateField, bare or with parameters: the call gives what it gives for
\* the list without such entries (it adds no error and does not raise).
C11_UnknownRuleIsInert ==
  FieldCallDone =>
    call.result = ValidateField(BuiltinRegistry, call.value,
                                SelectSeq(call.rules, IsKnown), call.formData)

\* the value is one a form snapshot can hold: a string or an array of strings
IsSnapshotValue(x) == x.k \in {"str", "arr"}

\* the rule string is made of well-formed declarations of built-in rules
BuiltinTokens ==
  {N_required, N_email, N_phone, N_number, T_min, T_max, T_minLength, T_match, T_pattern}
RECURSIVE AllIn(_, _)
AllIn(tokens, S) == tokens = <<>> \/ (Head(tokens) \in S /\ AllIn(Tail(tokens), S))

\* C12: validateField never raises on built-in rules compiled by
\* parseRuleString and a value a form snapshot can hold: it returns a result.
C12_ValidationNeverThrows ==
  (FieldCallDone /\ IsSnapshotValue(call.value)
   /\ AllIn(Split(call.ruleString, "|"), BuiltinTokens))
    => ~call.result.threw

\* the indices of the rules of the call whose predicate reported a failure
FailingRules ==
  {i \in 1..Len(call.rules) :
     Falsy(RuleOutcome(BuiltinRegistry, call.rules[i], call.value, call.formData))}

\* the k-th failing rule in declaration order
KthFailing(k) ==
  CHOOSE i \in FailingRules : Cardinality({j \in FailingRules : j < i}) = k - 1

\* C13: a call of validateField that returns has collected one message per
\* failing rule, in declaration order (all of them, not only the first), and
\* its isValid is true exactly when the error list is empty.
C13_AllFailuresCollectedInOrder ==
  (FieldCallDone /\ ~call.result.threw) =>
    /\ Len(call.result.errors) = Cardinality(FailingRules)
    /\ \A k \in 1..Len(call.result.errors) :
         call.result.errors[k] = RuleMessage(BuiltinRegistry, call.rules[KthFailing(k)])
    /\ call.result.isValid <=> call.result.errors = <<>>

\* two rules failed and both messages were collected, in declaration order
C13_Witness ==
  /\ FieldCallDone /\ ~call.result.threw
  /\ call.ruleString = N_required \o <<"|">> \o N_email
  /\ call.result.errors = <<StaticMessage(N_required), StaticMessage(N_email)>>
  /\ ~call.result.isValid

\* a call of validateForm has run
FormCallDone == call.op = "validateForm" /\ call.done

\* the value the Form Validator is to validate for field f: the snapshot's
\* value, the empty string for a field the snapshot does not hold
SnapshotValue(f) == IF f \in DOMAIN call.formData THEN call.formData[f] ELSE JStr(V_empty)

\* C14: a call of validateForm that returns has validated exactly the field
\* names of the rules map (fields only in the snapshot are ignored), with the
\* empty string for a field the snapshot does not hold; isValid is the AND of
\* the per-field results and errors holds exactly the fields with an error.
C14_FormResultAggregatesFields ==
  (FormCallDone /\ ~call.result.threw) =>
    /\ DOMAIN call.result.results = DOMAIN call.validationRules
    /\ \A f \in DOMAIN call.validationRules :
         call.result.results[f] =
           ValidateField(BuiltinRegistry, SnapshotValue(f), call.validationRules[f],
                         call.formData)
    /\ call.result.isValid <=>
         \A f \in DOMAIN call.validationRules : call.result.results[f].isValid
    /\ DOMAIN call.result.errors =
         {f \in DOMAIN call.validationRules : call.result.results[f].errors # <<>>}
    /\ \A f \in DOMAIN call.result.errors :
         call.result.errors[f] = call.result.results[f].errors

\* p and c are required, the snapshot holds p and o but not c: c alone fails
C14_Witness ==
  /\ FormCallDone /\ ~call.result.threw
  /\ call.validationRules = RuleMapOf(N_required, N_required)
  /\ call.formData = SnapshotOf(JStr(V_a), JUndef, JStr(V_a))
  /\ ~call.result.isValid
  /\ DOMAIN call.result.errors = {F_confirm}
  /\ DOMAIN call.result.results = {F_password, F_confirm}

\* the text has no character other than white space
IsBlank(text) == \A i \in 1..Len(text) : IsSpace(text[i])

\* the call declared the bare rule required
DeclaresRequired == \E i \in 1..Len(call.rules) : call.rules[i] = BareRule(N_required)

\* the errors of the call hold the message of required
ReportsRequired ==
  \E k \in 1..Len(call.result.errors) : call.result.errors[k] = StaticMessage(N_required)

\* C15: required fails, and validateField reports its message, for the empty
\* string, a white-space-only string, null and undefined; it passes for every
\* string with a character that is not white space.
C15_RequiredRejectsBlank ==
  (FieldCallDone /\ ~call.result.threw /\ DeclaresRequired
   /\ call.value.k \in {"str", "null", "undef"})
    => (ReportsRequired <=> (call.value.k \in {"null", "undef"} \/ IsBlank(call.value.v)))

\* required alone on a white-space-only value: the one error is its message
C15_Witness ==
  /\ FieldCallDone
  /\ call.rules = <<BareRule(N_required)>>
  /\ call.value = JStr(V_blank)
  /\ call.result = [threw |-> FALSE, isValid |-> FALSE, errors |-> <<StaticMessage(N_required)>>]

\* rule i of the call is min:N or max:N with a number N
IsBound(i) ==
  /\ call.rules[i].obj
  /\ call.rules[i].rule \in {N_min, N_max}
  /\ call.rules[i].params[1].k = "num"

\* the errors of the call hold the message of rule i
Reports(i) ==
  \E k \in 1..Len(call.result.errors) :
    call.result.errors[k] = RuleMessage(BuiltinRegistry, call.rules[i])

\* the number the value coerces to is within the bound of rule i
WithinBound(i, num) ==
  /\ ~IsNaN(num)
  /\ IF call.rules[i].rule = N_min THEN num.v[1] >= call.rules[i].params[1].v[1]
     ELSE num.v[1] <= call.rules[i].params[1].v[1]

IsMatch(i) ==
  /\ call.rules[i].obj
  /\ call.rules[i].rule = N_match
  /\ call.rules[i].params[1].k = "str"

\* two snapshot values are equal: the same text, or the same sequence of texts
SameValue(x, y) == x.k = y.k /\ x.v = y.v

\* the snapshot holds the field that rule i names, with a value equal to the
\* value under validation
EqualsOther(i) ==
  /\ call.rules[i].params[1].v \in DOMAIN call.formData
  /\ SameValue(call.value, call.formData[call.rules[i].params[1].v])

\* C17: match:other passes exactly when the value equals the value of the
\* field other in the snapshot given to validation, and fails otherwise, also
\* when the snapshot does not hold other.
C17_MatchPassesOnEqualValues ==
  (FieldCallDone /\ ~call.result.threw /\ IsSnapshotValue(call.value)) =>
    \A i \in 1..Len(call.rules) : IsMatch(i) => (Reports(i) <=> ~EqualsOther(i))

\* a call of parseRuleString has run
ParseCallDone == call.op = "parseRuleString" /\ call.done

\* the name of a token name:params, and the parameters it declares: the text
\* before its first colon and the text after it
DeclaredName(token) == SubSeq(token, 1, IndexOf(token, ":") - 1)
DeclaredParams(token) == SubSeq(token, IndexOf(token, ":") + 1, Len(token))

\* the entry a token stands for
DeclaredEntry(token) ==
  IF IndexOf(token, ":") = 0 THEN BareRule(token)
  ELSE ParamRule(DeclaredName(token), ParseParams(Split(DeclaredParams(token), ",")))

\* the entries a sequence of tokens stands for, in order
DeclaredEntries(tokens) == [i \in 1..Len(tokens) |-> DeclaredEntry(tokens[i])]

\* C18: parseRuleString returns one entry per '|'-separated token, in input
\* order: the bare name for a token without ':', and for name:p1,p2,... the
\* entry {rule: name, params: [p1, p2, ...]} with every declared parameter.
C18_EveryTokenAndParameterKept ==
  ParseCallDone => call.result = DeclaredEntries(Split(call.ruleString, "|"))

\* the text is an optionally signed, non-empty run of decimal digits
IsNumeral(text) ==
  /\ text # <<>>
  /\ \A i \in 2..Len(text) : IsDigit(text[i])
  /\ IsDigit(text[1]) \/ (text[1] \in {"+", "-"} /\ Len(text) > 1)

\* the parameter texts of a token with parameters, as the parser cuts them
ParamTexts(token) == Split(Split(token, ":")[2], ",")

\* entry i of the result holds, for each of its parameter texts, a number
\* when the text is a numeral and the text itself otherwise
ParamsCoercedWhenNumeric(entry, texts) ==
  /\ Len(entry.params) = Len(texts)
  /\ \A j \in 1..Len(texts) :
       entry.params[j] = IF IsNumeral(texts[j]) THEN StringToNumber(texts[j])
                         ELSE JStr(texts[j])

\* C19: parseRuleString turns a parameter token into a number exactly when
\* the token parses as numeric and keeps every other token, the empty token
\* included, unchanged as a string.
C19_OnlyNumericTokensBecomeNumbers ==
  ParseCallDone =>
    \A i \in 1..Len(call.result) :
      call.result[i].obj =>
        ParamsCoercedWhenNumeric(call.result[i], ParamTexts(Split(call.ruleString, "|")[i]))

\* C20: real-time validation is idempotent: right after Form.validateField
\* ran on a field (on input or blur), running it again on that field, the
\* values unchanged, leaves the displayed error state as it is.
C20_RevalidationChangesNothing ==
  lastOp.op \in {"input", "blur"} =>
    Display = FormValidateField(layout, validationRules, Display, value, checked,
                                lastOp.field)

\* validateField ran on a field with rules and an error location, and its
\* first error is shown
C20_Witness ==
  /\ lastOp.op = "blur"
  /\ HasRules(layout, validationRules, lastOp.field)
  /\ invalid[lastOp.field]
  /\ ErrorContainer(layout, layout.fields[lastOp.field].name) # 0
  /\ errText[ErrorContainer(layout, layout.fields[lastOp.field].name)] # <<>>


(***************************************************************************)
(* Properties of the registry, the error display and the form snapshot.    *)
(***************************************************************************)
\* what validateField gives for a value under one bare rule whose predicate
\* is the built-in predicate and whose message the built-in message
ResolvedTo(predicate, message, v) ==
  IF Falsy(ApplyPlain(predicate, v))
  THEN [threw |-> FALSE, isValid |-> FALSE, errors |-> <<StaticMessage(message)>>]
  ELSE [threw |-> FALSE, isValid |-> TRUE, errors |-> <<>>]

\* C21: addRule(name, rule, message) registers the predicate and the message
\* under name and leaves the predicate and message of every other name as
\* they were; validateField then resolves name to the registered pair.
C21_AddRuleRegistersOnlyName ==
  (call.op = "addRule" /\ call.done) =>
    /\ DOMAIN call.registry.rules = RuleNames \cup {call.name}
    /\ DOMAIN call.registry.messages = RuleNames \cup {call.name}
    /\ call.registry.rules[call.name] = call.rule
    /\ call.registry.messages[call.name] = call.message
    /\ \A n \in RuleNames \ {call.name} :
         /\ call.registry.rules[n] = BuiltinRegistry.rules[n]
         /\ call.registry.messages[n] = BuiltinRegistry.messages[n]
    /\ call.validated =>
         /\ call.result = ResolvedTo(call.rule, call.message, call.value)
         /\ call.other # call.name =>
              call.otherResult = ResolvedTo(call.other, call.other, call.value)

\* a new name was registered with the e-mail predicate and the URL message,
\* and a value that is no e-mail address failed under it with that message,
\* while required still passed
C21_Witness ==
  /\ call.op = "addRule" /\ call.validated
  /\ call.name = T_unknown /\ call.rule = N_email /\ call.message = N_url
  /\ call.value = JStr(V_a) /\ call.other = N_required
  /\ call.result.errors = <<StaticMessage(N_url)>>
  /\ call.otherResult.isValid

(***************************************************************************)
(* Properties of the built-in rules and of the messages                    *)
(***************************************************************************)
DirectCallDone == call.op = "validateFieldDirect" /\ call.done

\* C24: every built-in rule other than required, given the empty string,
\* fails gracefully: validateField returns (nothing is raised) and reports
\* the rule as failed.
C24_RulesFailOnEmptyInput ==
  (DirectCallDone /\ call.value = JStr(V_empty) /\ call.rules \in {<<e>> : e \in EmptyInputEntries})
    => ~call.result.threw /\ ~call.result.isValid

\* the message the rule entry is to contribute when it fails
CarriesMessage(rule) == rule.obj /\ IsStr(rule.message) /\ rule.message.v # <<>>
ExpectedMessage(rule) ==
  IF CarriesMessage(rule) THEN rule.message
  ELSE IF rule.rule \in {N_minLength, N_maxLength, N_min, N_max, N_match}
    THEN MessageTemplate(rule.rule, ToStr(rule.params[1]))
    ELSE StaticMessage(rule.rule)

\* C25: the message of a failing rule is the entry's override message when
\* it carries one, otherwise the registry's message for the rule name, the
\* message function applied to the rule's parameters when it is parametric;
\* every collected error is a message string.
C25_MessageIsOverrideOrRegistry ==
  (DirectCallDone /\ ~call.result.threw) =>
    /\ Len(call.result.errors) = Cardinality(FailingRules)
    /\ \A n \in 1..Len(call.result.errors) :
         /\ call.result.errors[n] = ExpectedMessage(call.rules[KthFailing(n)])
         /\ IsStr(call.result.errors[n])

\* minLength:2 fails twice on 'a', once with an override message and once
\* without
C25_Witness ==
  /\ DirectCallDone
  /\ call.value = JStr(V_a)
  /\ call.rules = <<WithMessage(ParamRule(N_minLength, <<JNum(2)>>), M_custom),
                    ParamRule(N_minLength, <<JNum(2)>>)>>
  /\ call.result.errors = <<JStr(<<"Too short">>),
                            JStr(<<"Must be at least ", "2", " characters">>)>>

(***************************************************************************)
(* Properties of the error display                                         *)
(***************************************************************************)
\* the error locations explicitly associated with a field name (data-error)
\* and those the id derived from the name finds
ExplicitLocations(name) ==
  {c \in ContainerIds : layout.containers[c].dataError # NoAttr
                        /\ layout.containers[c].dataError = name}
FallbackLocations(name) ==
  {c \in ContainerIds : layout.containers[c].idFor # NoAttr
                        /\ layout.containers[c].idFor = name}

\* the error location of a field name (0: the form has none for it)
LocationOf(name) ==
  IF ExplicitLocations(name) # {} THEN FirstIndex(ExplicitLocations(name))
  ELSE FirstIndex(FallbackLocations(name))

ShowsAt(c, text, display) == c # 0 => errText[c] = text /\ errDisplay[c] = display

\* field i and the error location of its name show the errors
ErrorsShown(i, name, errors) ==
  IF errors # <<>>
    THEN invalid[i] /\ ShowsAt(LocationOf(name), TextOf(errors[1]), "block")
    ELSE ~invalid[i] /\ ShowsAt(LocationOf(name), <<>>, "none")

\* the result Form.validateField displayed for the field of the last event
LastFieldResult ==
  FieldResult(layout, validationRules, value, checked, lastOp.field)

\* C26: error display for a field.  The error location is the element
\* associated by data-error when there is one, otherwise the one found by
\* the id derived from the name.  After Form.validateField(field): with one
\* or more errors the location shows the first and the field is marked
\* invalid, with none the location is cleared and the marking removed.  After
\* a rejected submission every field with errors is marked and its location
\* shows its first error.
C26_FieldErrorDisplay ==
  /\ (lastOp.op \in {"input", "blur"} /\ HasRules(layout, validationRules, lastOp.field)
      /\ ~LastFieldResult.threw)
       => ErrorsShown(lastOp.field, layout.fields[lastOp.field].name, LastFieldResult.errors)
  /\ (lastOp.op = "handleSubmit" /\ lastOp.outcome = "rejected")
       => \A f \in DOMAIN validationRules :
            ~DeclaredResult(f).isValid
              => ErrorsShown(QueryByName(layout, f), f, DeclaredResult(f).errors)

\* a field with both kinds of location fails on blur: the data-error
\* location shows the message, the id-derived one stays empty
C26_Witness ==
  /\ lastOp.op = "blur"
  /\ ExplicitLocations(layout.fields[lastOp.field].name) # {}
  /\ FallbackLocations(layout.fields[lastOp.field].name) # {}
  /\ invalid[lastOp.field]
  /\ errDisplay[LocationOf(layout.fields[lastOp.field].name)] = "block"
  /\ \A c \in FallbackLocations(layout.fields[lastOp.field].name) : errText[c] = <<>>

\* a field is cleared by an input event, and a submission is rejected
C26_WitnessCleared ==
  /\ lastOp.op = "input"
  /\ HasRules(layout, validationRules, lastOp.field)
  /\ LocationOf(layout.fields[lastOp.field].name) # 0
  /\ errDisplay[LocationOf(layout.fields[lastOp.field].name)] = "none"
  /\ ~invalid[lastOp.field]

C26_WitnessSubmit ==
  /\ lastOp.op = "handleSubmit" /\ lastOp.outcome = "rejected"
  /\ \E f \in DOMAIN validationRules :
       /\ ~DeclaredResult(f).isValid
       /\ FallbackLocations(f) # {} /\ ExplicitLocations(f) = {}
       /\ errDisplay[LocationOf(f)] = "block"

(***************************************************************************)
(* Properties of the form snapshot                                         *)
(***************************************************************************)
ExtractCallDone == call.op = "extractFormData" /\ call.done

\* the values of the entries of a name, in form order
EntriesOf(entries, name) == SelectSeq(entries, LAMBDA e : e[1] = name)
ValuesOf(entries, name) ==
  [i \in 1..Len(EntriesOf(entries, name)) |-> EntriesOf(entries, name)[i][2]]

\* C27: extractFormData maps each field name to its value: a name with one
\* entry to that string, a name with two or more entries to the sequence of
\* all its values in form order, empty strings included.
C27_SnapshotKeepsEveryValue ==
  ExtractCallDone =>
    /\ DOMAIN call.result = {call.entries[i][1] : i \in 1..Len(call.entries)}
    /\ \A name \in DOMAIN call.result :
         IF Len(ValuesOf(call.entries, name)) = 1
           THEN call.result[name] = JStr(ValuesOf(call.entries, name)[1])
           ELSE /\ call.result[name].k = "arr"
                /\ call.result[name].v = ValuesOf(call.entries, name)

(***************************************************************************)
(* Properties of the storage helper                                        *)
(***************************************************************************)
GetWithTTLDone == storageCall.op = "getWithTTL"

\* the entry getWithTTL read is one setWithTTL writes
HasExpiry(item) == HasOwnProperty(item, "expiry")

\* C22: getWithTTL never returns a value whose expiry time has passed: when
\* the time of the call exceeds the expiry of the entry it returns the
\* default and the key is removed; until then it returns the entry's value
\* and the entry stays as it was; for an entry without an expiry (or no
\* entry) it returns the default.
C22_ExpiredEntriesAreNeverReturned ==
  GetWithTTLDone =>
    IF HasExpiry(storageCall.item)
      THEN IF storageCall.now > storageCall.item.v.expiry.v[1]
        THEN /\ storageCall.returned = storageCall.defaultValue
             /\ localStorage[storageCall.key] = Missing
        ELSE /\ storageCall.returned = ValueOf(storageCall.item)
             /\ localStorage[storageCall.key] = Json(storageCall.item)
      ELSE storageCall.returned = storageCall.defaultValue

\* an entry is read one millisecond after its expiry, and another exactly at
\* its expiry
C22_Witness ==
  /\ GetWithTTLDone
  /\ HasExpiry(storageCall.item)
  /\ storageCall.now = storageCall.item.v.expiry.v[1] + 1
  /\ storageCall.item.v.value = JStr(V_a)
  /\ storageCall.defaultValue = JStr(V_b)

C22_WitnessAtExpiry ==
  /\ GetWithTTLDone
  /\ HasExpiry(storageCall.item)
  /\ storageCall.now = storageCall.item.v.expiry.v[1]
  /\ storageCall.now > 0
  /\ storageCall.returned = JStr(V_a)


(***************************************************************************)
(* Properties of the theme manager                                         *)
(***************************************************************************)
ThemeIsStored == localStorage["theme"] # Missing

\* C23: a manually chosen theme persists against system changes: once the
\* manager has a current theme, whenever a theme is stored the current theme
\* is the stored theme; and a change of the system colour scheme leaves the
\* current theme as it is while a theme is stored.
C23_StoredThemePersists ==
  /\ [](ThemeIsStored /\ themeManager.currentTheme # NoTheme
          => themeManager.currentTheme = GetStoredTheme(localStorage))
  /\ [][prefersDark' # prefersDark /\ ThemeIsStored
          => themeManager'.currentTheme = themeManager.currentTheme]_vars

\* the system turns dark while 'light' is stored and the listener is installed
C23_Witness ==
  /\ themeCall.op = "systemChange"
  /\ themeManager.listeners > 0
  /\ prefersDark
  /\ localStorage["theme"] = Raw("light")
  /\ themeManager.currentTheme = "light"

\* the system change is followed when nothing is stored
C23_WitnessFollows ==
  /\ themeCall.op = "systemChange"
  /\ ~ThemeIsStored
  /\ themeCall.before = "light"
  /\ themeManager.currentTheme = "dark"

\* C28: the themeChanged event of setTheme(t) carries theme = t and
\* previousTheme = the theme that was current immediately before the call.
C28_EventCarriesPreviousTheme ==
  themeCall.op = "setTheme" /\ themeCall.event # NoThemeEvent =>
    /\ themeCall.event.theme = themeCall.theme
    /\ themeCall.event.previousTheme = themeCall.before


(***************************************************************************)
(* Properties of the toasts and of the modal                               *)
(***************************************************************************)
\* C29: every toast shown with a positive duration is eventually removed
\* from the container and from the toasts map.  No callback is pending when
\* timers is empty, and nothing but a callback removes a toast: then every
\* such toast has left the container and the map.
C29_ToastsAreRemoved ==
  timers = <<>> =>
    \A el \in 1..Len(toastEls) :
      toastEls[el].duration > 0 => el \notin Range(container) /\ el \notin Range(toasts)

====
